---- MODULE Spec2Model ----
(***************************************************************************)
(* Model of the Path class of flutter-canvas-ts (src/unnamed/part_001):    *)
(* the command list, the fill type and the current point of one Path, the  *)
(* builder operations that mutate them, the geometric queries getBounds,   *)
(* contains and getPerimeter computed over the command list, and clone,    *)
(* transform and combine, which make new Paths, on a heap of Path objects, *)
(* command arrays and command records.                                     *)
(*                                                                         *)
(* Numbers.  Every number a Path stores or computes is a JavaScript number,*)
(* an IEEE 754 double, and the model computes with doubles bit for bit:    *)
(* +, -, *, /, Math.sqrt and Math.floor round to nearest, ties to even.    *)
(* Math.sin and Math.cos are those of V8, the engine of the Node runtime    *)
(* the repository's tests run on: the fdlibm algorithms (kernel sine and   *)
(* cosine after the reduction by pi/2).  Angles are radians.               *)
(* Not modelled: the sign of zero, subnormal numbers, NaN, overflow, and   *)
(* arguments of Math.sin and Math.cos beyond 2^19 * pi/2.                  *)
(***************************************************************************)
EXTENDS Integers, Sequences, FiniteSets, TLC

\* commands, fillType, currentPoint: the private fields of the Path under
\* study.  lastCall: the most recent call made on it, with its arguments and
\* its return value (op "new" right after construction).
\* heap: the Path objects, command arrays and command records of the
\* specifications that work with several Paths (clone, transform, combine).
\* trace: the calls the most recent call made on the objects it was handed
\* (the rendering context, the canvas, a painter), in the order made.
\* customPaint: the CustomPaint object of SpecCustomPaint, once constructed.
\* painters: the painter objects, by identity; a CustomPaint refers to one.
VARIABLES commands, fillType, currentPoint, lastCall, heap, trace, customPaint,
          painters

vars ==
  <<commands, fillType, currentPoint, lastCall, heap, trace, customPaint, painters>>

\* ------------------------------------------------------------------ bounds
\* Calls are made while the command list is shorter than MaxCmds.
MaxCmds == 2
\* Largest coordinate drawn by the builder calls of Spec.
MaxCoord == 1
\* Number of addRect calls in SpecRects.
MaxRects == 2
\* Calls are made in SpecPoly while the command list is shorter than this.
MaxPolyCmds == 3
\* Calls are made in SpecTransform while the command list is shorter than this.
MaxXfCmds == 2
\* Number of Path objects made in SpecHeap.
MaxPaths == 2
\* Commands are pushed in SpecHeap while fewer records than this are in use.
MaxRecords == 2
\* Largest magnitude of the whole coordinates of SpecRay for which the
\* result of lineIntersectsRay is compared with the exact crossing (2^20).
MaxWhole == 1048576

\* ------------------------------------------------------- integer helpers
Min2(a, b) == IF a <= b THEN a ELSE b
Max2(a, b) == IF a >= b THEN a ELSE b
Abs(a) == IF a < 0 THEN -a ELSE a
Sign(a) == IF a < 0 THEN -1 ELSE IF a > 0 THEN 1 ELSE 0

\* ------------------------------------------------------------ magnitudes
\* A magnitude is a non-negative integer held as a sequence of limbs in base
\* Radix, least significant first.
Radix == 4096

limb(X, i) == IF i >= 1 /\ i <= Len(X) THEN X[i] ELSE 0

\* The columns X (of any size, negative too) as n limbs, followed by what is
\* carried out of them: 0 when the value fits, negative when it is negative.
RECURSIVE carry(_, _, _, _)
carry(X, n, i, k) ==
  IF i > n THEN <<k>>
  ELSE <<(limb(X, i) + k) % Radix>> \o carry(X, n, i + 1, (limb(X, i) + k) \div Radix)

limbsOf(X, n) == carry(X, n, 1, 0)

\* The columns of X + k * Y for a small k (negative too).
columns(X, k, Y, n) == [i \in 1..n |-> limb(X, i) + k * limb(Y, i)] \o <<>>

RECURSIVE dot(_, _, _, _)
dot(A, B, k, i) ==
  IF i > Len(A) \/ i > k THEN 0
  ELSE A[i] * limb(B, k + 1 - i) + dot(A, B, k, i + 1)

wmul(A, B) ==
  limbsOf([k \in 1..(Len(A) + Len(B)) |-> dot(A, B, k, Max2(1, k + 1 - Len(B)))] \o <<>>,
          Len(A) + Len(B))

RECURSIVE top(_, _)
top(X, i) == IF i = 0 THEN 0 ELSE IF X[i] # 0 THEN i ELSE top(X, i - 1)

\* The number of bits of a limb.
bitLenLimb(x) ==
  IF x < 64
  THEN IF x < 8 THEN (IF x < 2 THEN x ELSE IF x < 4 THEN 2 ELSE 3)
       ELSE IF x < 16 THEN 4 ELSE IF x < 32 THEN 5 ELSE 6
  ELSE IF x < 512 THEN (IF x < 128 THEN 7 ELSE IF x < 256 THEN 8 ELSE 9)
       ELSE IF x < 1024 THEN 10 ELSE IF x < 2048 THEN 11 ELSE 12

bitLenAt(X, t) == IF t = 0 THEN 0 ELSE 12 * (t - 1) + bitLenLimb(X[t])
BitLen(X) == bitLenAt(X, top(X, Len(X)))

\* n limbs of floor(X * 2^k), for k of either sign: q whole limbs and a
\* part of one, lo = 2^(k mod 12).
shifted(X, n, q, lo) ==
  [i \in 1..n |-> ((limb(X, i - q) * lo) % Radix) + (limb(X, i - q - 1) \div (Radix \div lo))]
    \o <<>>
Shl(X, k, n) == shifted(X, n, k \div 12, 2^(k % 12))

\* Bit j of X (bit 0 is the lowest), and whether the bits below bit k are 0.
bit(X, j) == (limb(X, j \div 12 + 1) \div 2^(j % 12)) % 2
lowZero(X, k) ==
  /\ \A i \in 1..(k \div 12) : limb(X, i) = 0
  /\ limb(X, k \div 12 + 1) % 2^(k % 12) = 0

\* A < B and A <= B, compared from limb i down.
RECURSIVE wcmp(_, _, _)
wcmp(A, B, i) ==
  IF i = 0 THEN 0
  ELSE IF limb(A, i) # limb(B, i) THEN (IF limb(A, i) < limb(B, i) THEN -1 ELSE 1)
  ELSE wcmp(A, B, i - 1)

\* --------------------------------------------------------------- numbers
\* A JavaScript number (an IEEE 754 double): <<n>> for an integer n with
\* |n| < 2^30, else <<s, e, m1, ..., m5>> for s * M * 2^e with s = 1 or -1
\* and the 53-bit M = m1 + m2 * Radix + ... + m5 * Radix^4, 2^52 <= M < 2^53.
\* Every double has one form.  0 is <<0>>; -0 is not told apart from it.
Whole(n) == <<n>>
isWhole(x) == Len(x) = 1
Infinity == <<2147483647>>
NegInfinity == <<-2147483647>>

toInt(Q) == Q[1] + Q[2] * Radix + Q[3] * Radix * Radix

pack(s, e, M) ==
  IF e >= -52 /\ e <= -23 /\ lowZero(M, -e)
  THEN <<s * toInt(Shl(M, e, 3))>>
  ELSE <<s, e, M[1], M[2], M[3], M[4], M[5]>>

\* The 53 bits Q after rounding up may have become 2^53.
normal(s, e, Q) ==
  pack(s, IF Q[5] = 32 THEN e + 1 ELSE e, IF Q[5] = 32 THEN <<0, 0, 0, 0, 16>> ELSE Q)

\* Bits are dropped below bit k of N: whether the rest is rounded up.
roundUp(N, k, sticky) ==
  /\ k >= 1
  /\ bit(N, k - 1) = 1
  /\ sticky \/ ~lowZero(N, k - 1) \/ bit(N, k) = 1

increment(Q, up) == limbsOf(<<Q[1] + up, Q[2], Q[3], Q[4], Q[5]>>, 5)

roundAt(s, N, e, sticky, len) ==
  IF len = 0 THEN <<0>>
  ELSE normal(s, e + len - 53,
              increment(Shl(N, 53 - len, 5), IF roundUp(N, len - 53, sticky) THEN 1 ELSE 0))

\* The double nearest to s * N * 2^e (ties to even); sticky: the exact value
\* is a little more than N * 2^e.
roundPack(s, N, e, sticky) == roundAt(s, N, e, sticky, BitLen(N))

magnitudeOf(a) == <<a % Radix, (a \div Radix) % Radix, a \div (Radix * Radix)>>

normalized(s, A, len) == [s |-> s, e |-> len - 53, m |-> Shl(A, 53 - len, 5)]

fromMagnitude(s, A) == normalized(s, A, BitLen(A))

fromInt(n) ==
  IF Abs(n) = Infinity[1] THEN [s |-> Sign(n), e |-> 2000, m |-> <<0, 0, 0, 0, 16>>]
  ELSE fromMagnitude(Sign(n), magnitudeOf(Abs(n)))

\* sign, exponent and mantissa of a number other than 0
unpack(x) ==
  IF isWhole(x) THEN fromInt(x[1]) ELSE [s |-> x[1], e |-> x[2], m |-> SubSeq(x, 3, 7)]

sgn(x) == IF isWhole(x) THEN Sign(x[1]) ELSE x[1]

\* The integer part of |x| for an x held with its mantissa and less than
\* 2^30 in size; such an x is not an integer.
floorMag(x) == toInt(Shl(SubSeq(x, 3, 7), x[2], 3))

\* |a| < |b|
magLess(a, b) ==
  IF isWhole(a)
  THEN IF isWhole(b) THEN Abs(a[1]) < Abs(b[1])
       ELSE IF b[2] >= -22 THEN Abs(a[1]) # Infinity[1]
       ELSE Abs(a[1]) <= floorMag(b)
  ELSE IF isWhole(b)
       THEN (IF a[2] >= -22 THEN Abs(b[1]) = Infinity[1] ELSE floorMag(a) < Abs(b[1]))
       ELSE a[2] < b[2] \/ (a[2] = b[2] /\ wcmp(SubSeq(a, 3, 7), SubSeq(b, 3, 7), 5) < 0)

\* a < b, a <= b, a > b, a >= b
flt(a, b) ==
  IF isWhole(a) /\ isWhole(b) THEN a[1] < b[1]
  ELSE IF sgn(a) # sgn(b) THEN sgn(a) < sgn(b)
  ELSE magLess(IF sgn(a) > 0 THEN a ELSE b, IF sgn(a) > 0 THEN b ELSE a)
fle(a, b) == ~flt(b, a)
fgt(a, b) == flt(b, a)
fge(a, b) == ~flt(a, b)

fneg(a) == IF isWhole(a) THEN <<-a[1]>> ELSE [a EXCEPT ![1] = -@]
MathAbs(a) == IF sgn(a) < 0 THEN fneg(a) ELSE a
MathMin(a, b) == IF flt(b, a) THEN b ELSE a
MathMax(a, b) == IF flt(a, b) THEN b ELSE a

\* ---- a + b
\* The columns C sum to T, negative when what was carried out of T is.
signedSum(s, C, e, T) ==
  roundPack(IF T[11] < 0 THEN -s ELSE s,
            IF T[11] < 0 THEN limbsOf(columns(<<>>, -1, C, 10), 10) ELSE T, e, FALSE)

addColumns(s, C, e) == signedSum(s, C, e, limbsOf(C, 10))

\* A has the exponent that is not the smaller, d = A.e - B.e.
addAligned(A, B, d) ==
  IF d > 55 THEN pack(A.s, A.e, A.m)
  ELSE addColumns(A.s, columns(Shl(A.m, d, 10), A.s * B.s, B.m, 10), B.e)

addUnpacked(A, B) ==
  addAligned(IF A.e >= B.e THEN A ELSE B, IF A.e >= B.e THEN B ELSE A, Abs(A.e - B.e))

fadd(a, b) ==
  IF isWhole(a) /\ isWhole(b) /\ Abs(a[1] + b[1]) < 1073741824 THEN <<a[1] + b[1]>>
  ELSE IF a = <<0>> THEN b
  ELSE IF b = <<0>> THEN a
  ELSE addUnpacked(unpack(a), unpack(b))

fsub(a, b) == fadd(a, fneg(b))

\* ---- a * b
mulUnpacked(A, B) == roundPack(A.s * B.s, wmul(A.m, B.m), A.e + B.e, FALSE)

fmul(a, b) ==
  IF isWhole(a) /\ isWhole(b) /\ Abs(a[1]) < 32768 /\ Abs(b[1]) < 32768 THEN <<a[1] * b[1]>>
  ELSE IF a = <<0>> \/ b = <<0>> THEN <<0>>
  ELSE mulUnpacked(unpack(a), unpack(b))

\* ---- a / b
\* One step of the long division by V (five limbs, the top one >= Radix/2):
\* R (at most V * Radix) is given as six limbs; the quotient digit is the
\* estimate qhat from the top limbs or one or two less, T = R - qhat * V.
digitFrom(V, qhat, T, less) ==
  <<qhat - less, limbsOf(columns(T, less, V, 6), 6)>>

digitTry(V, qhat, T) ==
  digitFrom(V, qhat, T,
            IF T[7] >= 0 THEN 0 ELSE IF limbsOf(columns(T, 1, V, 6), 6)[7] >= 1 THEN 1 ELSE 2)

digit(R, V, qhat) == digitTry(V, qhat, limbsOf(columns(R, -qhat, V, 6), 6))

\* The quotient limbs i, i-1, ..., 1 of U by V, R being the remainder so far;
\* the result is the quotient followed by whether a remainder is left.
RECURSIVE divLoop(_, _, _, _, _)
divNext(U, V, i, Q, d) == divLoop(U, V, i - 1, <<d[1]>> \o Q, d[2])
divLoop(U, V, i, Q, R) ==
  IF i = 0 THEN <<Q, \E j \in 1..5 : R[j] # 0>>
  ELSE divNext(U, V, i, Q, digit(<<U[i], R[1], R[2], R[3], R[4], R[5]>>, V,
                                 Min2(Radix - 1, (R[5] * Radix + R[4]) \div V[5])))

\* floor(U / V) for U of ten limbs and V of five, with U < V * Radix^5
wdiv(U, V) == divLoop(U, V, 5, <<>>, <<U[6], U[7], U[8], U[9], U[10]>>)

divRounded(s, e, QR) == roundPack(s, QR[1], e, QR[2])

divUnpacked(A, B) ==
  divRounded(A.s * B.s, A.e - B.e - 55, wdiv(Shl(A.m, 62, 10), Shl(B.m, 7, 5)))

fdiv(a, b) ==
  IF isWhole(a) /\ isWhole(b) /\ b[1] # 0 /\ Abs(a[1]) % Abs(b[1]) = 0
  THEN <<Sign(a[1]) * Sign(b[1]) * (Abs(a[1]) \div Abs(b[1]))>>
  ELSE IF a = <<0>> THEN <<0>>
  ELSE divUnpacked(unpack(a), unpack(b))

\* ---- Math.floor
floorOf(s, M, k) ==
  roundPack(s, increment(Shl(M, -k, 5), IF s < 0 /\ ~lowZero(M, k) THEN 1 ELSE 0), 0, FALSE)

MathFloor(a) ==
  IF isWhole(a) \/ a[2] >= 0 THEN a
  ELSE IF a[2] <= -53 THEN (IF a[1] > 0 THEN <<0>> ELSE <<-1>>)
  ELSE floorOf(a[1], SubSeq(a, 3, 7), -a[2])

\* ---- Math.sqrt
RECURSIVE ISqrtLoop(_, _, _)
ISqrtLoop(n, lo, hi) ==
  IF hi - lo <= 1 THEN lo
  ELSE IF ((lo + hi) \div 2) * ((lo + hi) \div 2) <= n
       THEN ISqrtLoop(n, (lo + hi) \div 2, hi)
       ELSE ISqrtLoop(n, lo, (lo + hi) \div 2)
ISqrt(n) == ISqrtLoop(n, 0, 32768)

setBit(R, b) == [R EXCEPT ![b \div 12 + 1] = @ + 2^(b % 12)]

\* floor(sqrt(N)), bit by bit from bit b down; R holds the bits above.
RECURSIVE rootLoop(_, _, _)
rootTry(N, R, T, b) ==
  IF wcmp(wmul(T, T), N, 11) <= 0 THEN rootLoop(N, T, b - 1) ELSE rootLoop(N, R, b - 1)
rootLoop(N, R, b) == IF b < 0 THEN R ELSE rootTry(N, R, setBit(R, b), b)

rootRounded(N, R, e) == roundPack(1, R, e, wcmp(wmul(R, R), N, 11) < 0)
rootOf(N, e) == rootRounded(N, rootLoop(N, <<0, 0, 0, 0, 0>>, 54), e)

sqrtUnpacked(A) ==
  rootOf(Shl(A.m, 56 + (A.e % 2), 10), (A.e - 56 - (A.e % 2)) \div 2)

MathSqrt(a) ==
  IF isWhole(a) /\ a[1] >= 0 /\ ISqrt(a[1]) * ISqrt(a[1]) = a[1] THEN <<ISqrt(a[1])>>
  ELSE sqrtUnpacked(unpack(a))
\* ---------------------------------------------- Math.sin and Math.cos
MathPI == <<1, -51, 3352, 1090, 2900, 543, 25>>

\* The high word of |x|: the exponent field and the upper 20 bits of the
\* fraction of the double.
highWordOf(A) ==
  (A.e + 1075) * 1048576 + ((A.m[3] \div 256) + A.m[4] * 16 + A.m[5] * 65536 - 1048576)
highWord(x) == IF x = <<0>> THEN 0 ELSE highWordOf(unpack(x))

\* INSERT_WORDS(d, hw, 0): the double of high word hw and low word 0.
insertWords(e, t) == pack(1, e, <<0, 0, (t % 16) * 256, (t \div 16) % 4096, t \div 65536>>)
fromHighWord(hw) == insertWords((hw \div 1048576) - 1075, 1048576 + (hw % 1048576))

\* The variables of the computation, with the constants of k_sin.c, k_cos.c
\* and e_rem_pio2.c.  x, y: the argument reduced by a multiple of pi/2, in
\* two parts; t: the size of the argument; fn: the multiple.
Registers ==
  [t |-> <<0>>, fn |-> <<0>>, x |-> <<0>>, y |-> <<0>>, z |-> <<0>>, v |-> <<0>>,
   r |-> <<0>>, w |-> <<0>>, a |-> <<0>>, b |-> <<0>>, qx |-> <<0>>,
   sin |-> <<0>>, cos |-> <<0>>,
   zero |-> <<0>>, one |-> <<1>>, half |-> <<1, -53, 0, 0, 0, 0, 16>>,
   S1 |-> <<-1, -55, 1353, 1365, 1365, 1365, 21>>,
   S2 |-> <<1, -59, 2214, 271, 273, 273, 17>>,
   S3 |-> <<-1, -65, 469, 3094, 25, 26, 26>>,
   S4 |-> <<1, -71, 3709, 2847, 855, 478, 23>>,
   S5 |-> <<-1, -78, 3307, 697, 1674, 3678, 26>>,
   S6 |-> <<1, -85, 1404, 3325, 2650, 3475, 21>>,
   C1 |-> <<1, -57, 1356, 1365, 1365, 1365, 21>>,
   C2 |-> <<-1, -62, 375, 3093, 3094, 3094, 22>>,
   C3 |-> <<1, -68, 1424, 3249, 25, 26, 26>>,
   C4 |-> <<-1, -74, 685, 2501, 3968, 2020, 18>>,
   C5 |-> <<1, -81, 452, 2891, 3773, 3817, 17>>,
   C6 |-> <<-1, -89, 2260, 2179, 2494, 4014, 24>>,
   pio2_1 |-> <<1, -52, 0, 1024, 2900, 543, 25>>,
   pio2_1t |-> <<1, -86, 817, 1574, 282, 2886, 16>>,
   pio2_2 |-> <<1, -86, 0, 1536, 282, 2886, 16>>,
   pio2_2t |-> <<1, -121, 115, 55, 2606, 408, 19>>,
   pio2_3 |-> <<1, -121, 0, 0, 2606, 408, 19>>,
   pio2_3t |-> <<1, -156, 2497, 516, 2597, 2105, 27>>,
   invpio2 |-> <<1, -53, 2179, 3228, 109, 1523, 20>>]

\* One statement d = a op b is <<d, op, a, b>>; the statements of a list are
\* executed in order from statement k.
arith(op, a, b) == IF op = "*" THEN fmul(a, b) ELSE fadd(a, IF op = "-" THEN fneg(b) ELSE b)

RECURSIVE run(_, _, _)
run(R, statements, k) ==
  IF k > Len(statements) THEN R
  ELSE run([R EXCEPT ![statements[k][1]] =
                       arith(statements[k][2], R[statements[k][3]], R[statements[k][4]])],
           statements, k + 1)

\* __kernel_sin(x, y, iy)
\*   z = x*x; v = z*x; r = S2 + z*(S3 + z*(S4 + z*(S5 + z*S6)));
sinPoly ==
  <<<<"z", "*", "x", "x">>, <<"v", "*", "z", "x">>,
    <<"r", "*", "z", "S6">>, <<"r", "+", "S5", "r">>,
    <<"r", "*", "z", "r">>, <<"r", "+", "S4", "r">>,
    <<"r", "*", "z", "r">>, <<"r", "+", "S3", "r">>,
    <<"r", "*", "z", "r">>, <<"r", "+", "S2", "r">>>>
\*   if (iy == 0) return x + v*(S1 + z*r);
sinAlone ==
  <<<<"a", "*", "z", "r">>, <<"a", "+", "S1", "a">>, <<"a", "*", "v", "a">>,
    <<"sin", "+", "x", "a">>>>
\*   else return x - ((z*(half*y - v*r) - y) - v*S1);
sinWithTail ==
  <<<<"a", "*", "half", "y">>, <<"b", "*", "v", "r">>, <<"a", "-", "a", "b">>,
    <<"a", "*", "z", "a">>, <<"a", "-", "a", "y">>, <<"b", "*", "v", "S1">>,
    <<"a", "-", "a", "b">>, <<"sin", "-", "x", "a">>>>
\*   if |x| < 2^-27 return x
kernel_sin(ix, iy) ==
  IF ix < 1044381696 THEN <<<<"sin", "+", "x", "zero">>>>
  ELSE sinPoly \o (IF iy = 0 THEN sinAlone ELSE sinWithTail)

\* __kernel_cos(x, y)
\*   z = x*x; r = z*(C1 + z*(C2 + z*(C3 + z*(C4 + z*(C5 + z*C6)))));
\*   and then z*r - x*y
cosPoly ==
  <<<<"z", "*", "x", "x">>,
    <<"r", "*", "z", "C6">>, <<"r", "+", "C5", "r">>,
    <<"r", "*", "z", "r">>, <<"r", "+", "C4", "r">>,
    <<"r", "*", "z", "r">>, <<"r", "+", "C3", "r">>,
    <<"r", "*", "z", "r">>, <<"r", "+", "C2", "r">>,
    <<"r", "*", "z", "r">>, <<"r", "+", "C1", "r">>,
    <<"r", "*", "z", "r">>,
    <<"a", "*", "z", "r">>, <<"b", "*", "x", "y">>, <<"a", "-", "a", "b">>>>
\*   if |x| < 0.3 return one - (0.5*z - (z*r - x*y));
cosNearZero ==
  <<<<"b", "*", "half", "z">>, <<"b", "-", "b", "a">>, <<"cos", "-", "one", "b">>>>
\*   else hz = 0.5*z - qx; a = one - qx; return a - (hz - (z*r - x*y));
cosAway ==
  <<<<"b", "*", "half", "z">>, <<"b", "-", "b", "qx">>, <<"b", "-", "b", "a">>,
    <<"a", "-", "one", "qx">>, <<"cos", "-", "a", "b">>>>
\*   if |x| < 2^-27 return one
kernel_cos(ix) ==
  IF ix < 1044381696 THEN <<<<"cos", "+", "one", "zero">>>>
  ELSE cosPoly \o (IF ix < 1070805811 THEN cosNearZero ELSE cosAway)

\* qx of __kernel_cos: 0.28125 for |x| > 0.78125, else x/4 from the high
\* word ix of x.
qxOf(ix) ==
  IF ix > 1072234496 THEN <<1, -54, 0, 0, 0, 0, 18>>
  ELSE IF ix < 1070805811 THEN <<0>>
  ELSE fromHighWord(ix - 2097152)

npio2_hw ==
  <<1073291771, 1074340347, 1074977148, 1075388923, 1075800698, 1076025724,
    1076231611, 1076437499, 1076643386, 1076849274, 1076971356, 1077074300,
    1077177244, 1077280187, 1077383131, 1077486075, 1077589019, 1077691962,
    1077794906, 1077897850, 1077968460, 1078019932, 1078071404, 1078122876,
    1078174348, 1078225820, 1078277292, 1078328763, 1078380235, 1078431707,
    1078483179, 1078534651>>

\* __ieee754_rem_pio2 for |x| up to 2^19 * pi/2, in steps.
\*   t = r; w = fn*p; r = t-w; w = fn*pt - ((t-r)-w); y[0] = r-w;
iteration(p, pt) ==
  <<<<"t", "+", "r", "zero">>, <<"w", "*", "fn", p>>, <<"r", "-", "t", "w">>,
    <<"a", "*", "fn", pt>>, <<"b", "-", "t", "r">>, <<"b", "-", "b", "w">>,
    <<"w", "-", "a", "b">>, <<"x", "-", "r", "w">>>>

statementsOf(step, K) ==
  CASE step = "small" -> <<>>
    \* |x| < 3pi/4: z = x - pio2_1, and near pi/2 z -= pio2_2 too
    [] step = "near" ->
         IF K.ix # 1073291771
         THEN <<<<"r", "-", "t", "pio2_1">>, <<"w", "+", "pio2_1t", "zero">>,
                <<"x", "-", "r", "w">>>>
         ELSE <<<<"r", "-", "t", "pio2_1">>, <<"r", "-", "r", "pio2_2">>,
                <<"w", "+", "pio2_2t", "zero">>, <<"x", "-", "r", "w">>>>
    \* n = (int)(t*invpio2 + half)
    [] step = "multiple" -> <<<<"fn", "*", "t", "invpio2">>, <<"fn", "+", "fn", "half">>>>
    \* r = t - fn*pio2_1; w = fn*pio2_1t; y[0] = r - w
    [] step = "first" ->
         <<<<"a", "*", "fn", "pio2_1">>, <<"r", "-", "t", "a">>,
           <<"w", "*", "fn", "pio2_1t">>, <<"x", "-", "r", "w">>>>
    [] step = "second" -> iteration("pio2_2", "pio2_2t")
    [] step = "third" -> iteration("pio2_3", "pio2_3t")
    \* y[1] = (r - y[0]) - w, and both parts negated for a negative argument
    [] step = "tail" ->
         <<<<"y", "-", "r", "x">>, <<"y", "-", "y", "w">>>>
           \o (IF K.negative
               THEN <<<<"x", "-", "zero", "x">>, <<"y", "-", "zero", "y">>>>
               ELSE <<>>)
    [] step = "kernels" -> kernel_sin(K.hx, K.iy) \o kernel_cos(K.hx)

\* The exponent lost between the argument and y[0].
gap(K, R) == (K.ix \div 1048576) - (highWord(R.x) \div 1048576)

following(step, K, R) ==
  CASE step = "small" -> "kernels"
    [] step = "near" -> "tail"
    [] step = "multiple" -> "first"
    [] step = "first" ->
         IF K.n < 32 /\ K.ix # npio2_hw[K.n] THEN "tail"
         ELSE IF gap(K, R) > 16 THEN "second" ELSE "tail"
    [] step = "second" -> IF gap(K, R) > 49 THEN "third" ELSE "tail"
    [] step = "third" -> "tail"
    [] step = "tail" -> "kernels"
    [] step = "kernels" -> "done"

\* What a step leaves besides the results of its statements: the multiple as
\* an integer, the high word of y[0] and qx.
settled(step, K, R) ==
  [K EXCEPT !.n = IF step = "multiple" THEN MathFloor(R.fn)[1] ELSE @,
            !.hx = highWord(R.x)]
registered(step, R) ==
  [R EXCEPT !.fn = IF step = "multiple" THEN MathFloor(@) ELSE @,
            !.qx = qxOf(highWord(R.x))]

RECURSIVE evaluate(_, _, _)
proceed(step, K, R) == evaluate(following(step, K, R), settled(step, K, R), registered(step, R))
evaluate(step, K, R) ==
  IF step = "done" THEN <<K.n, R.sin, R.cos>>
  ELSE proceed(step, K, run(R, statementsOf(step, K), 1))

\* <<n, sin, cos>> of what is left of x after n quarter turns.
reduced(x, ix) ==
  evaluate(IF ix <= 1072243195 THEN "small" ELSE IF ix < 1073928572 THEN "near" ELSE "multiple",
           [ix |-> ix, hx |-> ix, n |-> IF ix <= 1072243195 THEN 0 ELSE 1,
            iy |-> IF ix <= 1072243195 THEN 0 ELSE 1, negative |-> sgn(x) < 0],
           [Registers EXCEPT !.t = MathAbs(x), !.x = x])

\* <<Math.sin(x), Math.cos(x)>>
quadrant(n, s, c) ==
  CASE n % 4 = 0 -> <<s, c>>
    [] n % 4 = 1 -> <<c, fneg(s)>>
    [] n % 4 = 2 -> <<fneg(s), fneg(c)>>
    [] OTHER -> <<fneg(c), s>>
sinCosFrom(q, negative) == quadrant(IF negative THEN -q[1] ELSE q[1], q[2], q[3])
sinCosOf(x) == sinCosFrom(reduced(x, highWord(x)), sgn(x) < 0)

\* 2 * Math.PI, Math.PI / 2 and (3 * Math.PI) / 2
TwoPi == fmul(<<2>>, MathPI)
HalfPi == fdiv(MathPI, <<2>>)
ThreeHalfPi == fdiv(fmul(<<3>>, MathPI), <<2>>)

\* The quarter turns up to a turn and a half: the angles the calls of the
\* specifications are made with.  Their sines and cosines are evaluated
\* once and looked up afterwards.
QuarterTurns == {<<0>>, HalfPi, MathPI, ThreeHalfPi, TwoPi, fadd(MathPI, TwoPi)}
sinCosAtQuarterTurns == [x \in QuarterTurns |-> sinCosOf(x)] @@ <<>>

MathSinCos(x) == IF x \in QuarterTurns THEN sinCosAtQuarterTurns[x] ELSE sinCosOf(x)

MathSin(x) == MathSinCos(x)[1]
MathCos(x) == MathSinCos(x)[2]


\* ------------------------------------------------------------ data model
Offset(x, y) == [dx |-> x, dy |-> y]
Rect(l, t, r, b) == [left |-> l, top |-> t, right |-> r, bottom |-> b]
PathCommand(t, a) == [type |-> t, args |-> a]

\* Objects whose fields are the integers x, y (l, t, r, b).
OffsetOf(x, y) == Offset(<<x>>, <<y>>)
RectOf(l, t, r, b) == Rect(<<l>>, <<t>>, <<r>>, <<b>>)

nonZero == "nonzero"
evenOdd == "evenodd"

\* A Path object: the three private fields of the class.
NewPath == [commands |-> <<>>, fillType |-> nonZero, currentPoint |-> OffsetOf(0, 0)]

\* ------------------------------------------------------- builder methods
moveTo(P, x, y) ==
  [P EXCEPT !.commands = Append(@, PathCommand("moveTo", <<x, y>>)),
            !.currentPoint = Offset(x, y)]

relativeMoveTo(P, dx, dy) ==
  LET newX == fadd(P.currentPoint.dx, dx)
      newY == fadd(P.currentPoint.dy, dy)
  IN  moveTo(P, newX, newY)

lineTo(P, x, y) ==
  [P EXCEPT !.commands = Append(@, PathCommand("lineTo", <<x, y>>)),
            !.currentPoint = Offset(x, y)]

relativeLineTo(P, dx, dy) ==
  LET newX == fadd(P.currentPoint.dx, dx)
      newY == fadd(P.currentPoint.dy, dy)
  IN  lineTo(P, newX, newY)

quadraticBezierTo(P, x1, y1, x2, y2) ==
  [P EXCEPT !.commands = Append(@, PathCommand("quadraticCurveTo", <<x1, y1, x2, y2>>)),
            !.currentPoint = Offset(x2, y2)]

relativeQuadraticBezierTo(P, x1, y1, x2, y2) ==
  LET newX1 == fadd(P.currentPoint.dx, x1)
      newY1 == fadd(P.currentPoint.dy, y1)
      newX2 == fadd(P.currentPoint.dx, x2)
      newY2 == fadd(P.currentPoint.dy, y2)
  IN  quadraticBezierTo(P, newX1, newY1, newX2, newY2)

\* cubicTo that leaves the current point on the second control point.
cubicTo_ctrlEnd(P, x1, y1, x2, y2, x3, y3) ==
  [P EXCEPT !.commands = Append(@, PathCommand("bezierCurveTo", <<x1, y1, x2, y2, x3, y3>>)),
            !.currentPoint = Offset(x2, y2)]

cubicTo(P, x1, y1, x2, y2, x3, y3) ==
  [P EXCEPT !.commands = Append(@, PathCommand("bezierCurveTo", <<x1, y1, x2, y2, x3, y3>>)),
            !.currentPoint = Offset(x3, y3)]

\* relativeCubicTo that takes the end point as absolute.
relativeCubicTo_absEnd(P, x1, y1, x2, y2, x3, y3) ==
  LET newX1 == fadd(P.currentPoint.dx, x1)
      newY1 == fadd(P.currentPoint.dy, y1)
      newX2 == fadd(P.currentPoint.dx, x2)
      newY2 == fadd(P.currentPoint.dy, y2)
  IN  cubicTo(P, newX1, newY1, newX2, newY2, x3, y3)

relativeCubicTo(P, x1, y1, x2, y2, x3, y3) ==
  LET newX1 == fadd(P.currentPoint.dx, x1)
      newY1 == fadd(P.currentPoint.dy, y1)
      newX2 == fadd(P.currentPoint.dx, x2)
      newY2 == fadd(P.currentPoint.dy, y2)
      newX3 == fadd(P.currentPoint.dx, x3)
      newY3 == fadd(P.currentPoint.dy, y3)
  IN  cubicTo(P, newX1, newY1, newX2, newY2, newX3, newY3)

\* The point (centerX + radius * Math.cos(angle),
\*            centerY + radius * Math.sin(angle)), sinCos being the sine and
\* the cosine of the angle.
pointOn(centerX, centerY, radius, sinCos) ==
  Offset(fadd(centerX, fmul(radius, sinCos[2])), fadd(centerY, fmul(radius, sinCos[1])))
pointAt(centerX, centerY, radius, angle) ==
  pointOn(centerX, centerY, radius, MathSinCos(angle))

\* The points of the circle at the angles of a list.
pointsAt(centerX, centerY, radius, angles) ==
  [i \in 1..Len(angles) |-> pointAt(centerX, centerY, radius, angles[i])] \o <<>>

\* arcTo once the centre and the radius are known; ends: the points at
\* startAngle and at startAngle + sweepAngle.
arcBetween(P, centerX, centerY, radius, startAngle, sweepAngle, forceMoveTo, ends) ==
  [(IF forceMoveTo THEN moveTo(P, ends[1].dx, ends[1].dy) ELSE P)
     EXCEPT !.commands = Append(@, PathCommand("arc",
                <<centerX, centerY, radius, startAngle, fadd(startAngle, sweepAngle)>>)),
            !.currentPoint = ends[2]]

arcFrom(P, centerX, centerY, radius, startAngle, sweepAngle, forceMoveTo) ==
  arcBetween(P, centerX, centerY, radius, startAngle, sweepAngle, forceMoveTo,
             pointsAt(centerX, centerY, radius,
                      <<startAngle, fadd(startAngle, sweepAngle)>>))

arcTo(P, rect, startAngle, sweepAngle, forceMoveTo) ==
  arcFrom(P, fdiv(fadd(rect.left, rect.right), <<2>>),
          fdiv(fadd(rect.top, rect.bottom), <<2>>),
          MathMin(fdiv(fsub(rect.right, rect.left), <<2>>),
                  fdiv(fsub(rect.bottom, rect.top), <<2>>)),
          startAngle, sweepAngle, forceMoveTo)

close(P) ==
  [P EXCEPT !.commands = Append(@, PathCommand("closePath", <<>>))]

addRect(P, rect) ==
  LET P1 == moveTo(P, rect.left, rect.top)
      P2 == lineTo(P1, rect.right, rect.top)
      P3 == lineTo(P2, rect.right, rect.bottom)
      P4 == lineTo(P3, rect.left, rect.bottom)
  IN  close(P4)

addRRect(P, rrect) ==
  LET rect == rrect.rect
      radius == MathMin(rrect.tlRadiusX, rrect.tlRadiusY)
  IN  [P EXCEPT !.commands = Append(@, PathCommand("roundRect",
                    <<rect.left, rect.top, fsub(rect.right, rect.left),
                      fsub(rect.bottom, rect.top), radius>>))]

addOval(P, rect) ==
  LET centerX == fdiv(fadd(rect.left, rect.right), <<2>>)
      centerY == fdiv(fadd(rect.top, rect.bottom), <<2>>)
      radiusX == fdiv(fsub(rect.right, rect.left), <<2>>)
      radiusY == fdiv(fsub(rect.bottom, rect.top), <<2>>)
  IN  [P EXCEPT !.commands = Append(@, PathCommand("ellipse",
                    <<centerX, centerY, radiusX, radiusY, <<0>>, <<0>>, TwoPi>>))]

addCircle(P, center, radius) ==
  [P EXCEPT !.commands = Append(@, PathCommand("arc",
                <<center.dx, center.dy, radius, <<0>>, TwoPi>>))]

RECURSIVE addPolygonLoop(_, _, _)
addPolygonLoop(P, points, i) ==
  IF i > Len(points) THEN P
  ELSE addPolygonLoop(lineTo(P, points[i].dx, points[i].dy), points, i + 1)

addPolygon(P, points, closeIt) ==
  IF Len(points) = 0 THEN P
  ELSE LET P1 == moveTo(P, points[1].dx, points[1].dy)
           P2 == addPolygonLoop(P1, points, 2)
       IN  IF closeIt THEN close(P2) ELSE P2

reset(P) ==
  [P EXCEPT !.commands = <<>>, !.currentPoint = OffsetOf(0, 0)]

setFillType(P, value) ==
  [P EXCEPT !.fillType = value]

\* ------------------------------------------------------------ getBounds
\* The two while loops of normalizeAngle.
RECURSIVE normalizeUp(_)
normalizeUp(a) == IF flt(a, <<0>>) THEN normalizeUp(fadd(a, TwoPi)) ELSE a
RECURSIVE normalizeDown(_)
normalizeDown(a) == IF fge(a, TwoPi) THEN normalizeDown(fsub(a, TwoPi)) ELSE a
normalizeAngle(a) == normalizeDown(normalizeUp(a))

inRange(normalizedAngle, normalizedStart, normalizedEnd) ==
  IF fle(normalizedStart, normalizedEnd)
  THEN fge(normalizedAngle, normalizedStart) /\ fle(normalizedAngle, normalizedEnd)
  ELSE fge(normalizedAngle, normalizedStart) \/ fle(normalizedAngle, normalizedEnd)
allNormalized(angles) == [i \in 1..Len(angles) |-> normalizeAngle(angles[i])] \o <<>>
inRangeOf(angles) == inRange(angles[1], angles[2], angles[3])
angleInRange(angle, start, end) == inRangeOf(allNormalized(<<angle, start, end>>))

\* updateBounds that folds x into the lower extreme of y.
updateBounds_minYFromX(B, x, y) ==
  [minX |-> MathMin(B.minX, x), minY |-> MathMin(B.minY, x),
   maxX |-> MathMax(B.maxX, x), maxY |-> MathMax(B.maxY, y)]

\* The closure updateBounds over the four running extremes.
updateBounds(B, x, y) ==
  [minX |-> MathMin(B.minX, x), minY |-> MathMin(B.minY, y),
   maxX |-> MathMax(B.maxX, x), maxY |-> MathMax(B.maxY, y)]

criticalAngles == <<<<0>>, HalfPi, MathPI, ThreeHalfPi>>

\* The points handed to updateBounds for one command, in order.
RECURSIVE updateAll(_, _, _)
updateAll(B, points, i) ==
  IF i > Len(points) THEN B
  ELSE updateAll(updateBounds(B, points[i].dx, points[i].dy), points, i + 1)

\* The arc case: the two ends and the critical angles within the arc.
arcAngles(startAngle, endAngle) ==
  <<startAngle, endAngle>> \o
  SelectSeq(criticalAngles, LAMBDA a : angleInRange(a, startAngle, endAngle))

\* The bounds of a rotated ellipse: cos = Math.cos(rotation), sin likewise.
ellipseExtent(centerX, centerY, width, height) ==
  <<Offset(fsub(centerX, width), fsub(centerY, height)),
    Offset(fadd(centerX, width), fadd(centerY, height))>>
hypotenuse(dx, dy) == MathSqrt(fadd(fmul(dx, dx), fmul(dy, dy)))
ellipseAxes(radiusX, radiusY, cos, sin) ==
  <<hypotenuse(fmul(radiusX, cos), fmul(radiusY, fneg(sin))),
    hypotenuse(fmul(radiusX, sin), fmul(radiusY, cos))>>
ellipseTurned(radiusX, radiusY, sinCos) == ellipseAxes(radiusX, radiusY, sinCos[2], sinCos[1])
ellipseSize(radiusX, radiusY, rotation) ==
  IF rotation = <<0>> THEN <<radiusX, radiusY>>
  ELSE ellipseTurned(radiusX, radiusY, MathSinCos(rotation))
ellipseCorners(centerX, centerY, size) == ellipseExtent(centerX, centerY, size[1], size[2])

\* One iteration of the loop of getBounds: the switch on cmd.type.
boundsPoints(cmd, args) ==
  CASE cmd.type \in {"moveTo", "lineTo"} ->
         IF Len(args) >= 2 THEN <<Offset(args[1], args[2])>> ELSE <<>>
    [] cmd.type = "quadraticCurveTo" ->
         IF Len(args) >= 4 THEN <<Offset(args[1], args[2]), Offset(args[3], args[4])>>
         ELSE <<>>
    [] cmd.type = "bezierCurveTo" ->
         IF Len(args) >= 6
         THEN <<Offset(args[1], args[2]), Offset(args[3], args[4]), Offset(args[5], args[6])>>
         ELSE <<>>
    [] cmd.type = "arc" ->
         IF Len(args) >= 5
         THEN pointsAt(args[1], args[2], args[3], arcAngles(args[4], args[5]))
         ELSE <<>>
    [] cmd.type = "ellipse" ->
         IF Len(args) >= 7
         THEN ellipseCorners(args[1], args[2], ellipseSize(args[3], args[4], args[5]))
         ELSE <<>>
    [] cmd.type = "roundRect" ->
         IF Len(args) >= 5
         THEN <<Offset(args[1], args[2]),
                Offset(fadd(args[1], args[3]), fadd(args[2], args[4]))>>
         ELSE <<>>
    [] OTHER -> <<>>

boundsStep(B, cmd) == updateAll(B, boundsPoints(cmd, cmd.args), 1)

RECURSIVE boundsLoop(_, _, _)
boundsLoop(B, cmds, i) ==
  IF i > Len(cmds) THEN B
  ELSE boundsLoop(boundsStep(B, cmds[i]), cmds, i + 1)

\* The object getBounds returns: an extreme never updated reads 0.
boundsOrZero(B) ==
  Rect(IF B.minX = Infinity THEN <<0>> ELSE B.minX,
       IF B.minY = Infinity THEN <<0>> ELSE B.minY,
       IF B.maxX = NegInfinity THEN <<0>> ELSE B.maxX,
       IF B.maxY = NegInfinity THEN <<0>> ELSE B.maxY)

getBounds(P) ==
  IF Len(P.commands) = 0 THEN RectOf(0, 0, 0, 0)
  ELSE boundsOrZero(boundsLoop([minX |-> Infinity, minY |-> Infinity,
                                maxX |-> NegInfinity, maxY |-> NegInfinity],
                               P.commands, 1))

\* ------------------------------------------------------------- contains
\* lineIntersectsRay that accepts intercepts on the left of the point.
lineIntersectsRay_leftward(x1, y1, x2, y2, rayX, rayY) ==
  IF (fle(y1, rayY) /\ fle(y2, rayY)) \/ (fgt(y1, rayY) /\ fgt(y2, rayY)) THEN FALSE
  ELSE IF fle(MathMax(x1, x2), rayX) THEN FALSE
  ELSE IF y1 = y2 THEN FALSE
  ELSE flt(fadd(x1, fdiv(fmul(fsub(rayY, y1), fsub(x2, x1)), fsub(y2, y1))), rayX)

\* const intersectionX = x1 + ((rayY - y1) * (x2 - x1)) / (y2 - y1)
intersectionX(x1, y1, x2, y2, rayY) ==
  fadd(x1, fdiv(fmul(fsub(rayY, y1), fsub(x2, x1)), fsub(y2, y1)))

lineIntersectsRay(x1, y1, x2, y2, rayX, rayY) ==
  IF (fle(y1, rayY) /\ fle(y2, rayY)) \/ (fgt(y1, rayY) /\ fgt(y2, rayY)) THEN FALSE
  ELSE IF fle(MathMax(x1, x2), rayX) THEN FALSE
  ELSE IF y1 = y2 THEN FALSE
  ELSE fgt(intersectionX(x1, y1, x2, y2, rayY), rayX)

\* Math.max(8, Math.floor(Math.abs(endAngle - startAngle) * 8))
arcSegments(startAngle, endAngle) ==
  MathMax(<<8>>, MathFloor(fmul(MathAbs(fsub(endAngle, startAngle)), <<8>>)))[1]

\* startAngle + i * angleStep
chordAngle(startAngle, angleStep, i) == fadd(startAngle, fmul(<<i>>, angleStep))

\* The angles of prevX, prevY before the loop over the chords (index 1) and
\* of x, y in its iterations i = 1..segments (index i + 1).
chordAngles(startAngle, angleStep, segments) ==
  [j \in 1..(segments + 1) |->
     IF j = 1 THEN startAngle ELSE chordAngle(startAngle, angleStep, j - 1)] \o <<>>

chordEnds(centerX, centerY, radius, startAngle, angleStep, segments) ==
  pointsAt(centerX, centerY, radius, chordAngles(startAngle, angleStep, segments))

chordIntersectsRay(from, to, ray) ==
  lineIntersectsRay(from.dx, from.dy, to.dx, to.dy, ray.x, ray.y)

\* W is the walk state of contains; hits crossings are counted and the walk
\* moves to p.
walkTo(W, hits, p) ==
  [W EXCEPT !.intersectionCount = @ + hits, !.currentX = p.dx, !.currentY = p.dy]

chordsOver(W, ends, segments, ray) ==
  walkTo(W,
         Cardinality({j \in 1..segments : chordIntersectsRay(ends[j], ends[j + 1], ray)}),
         ends[segments + 1])

\* The arc case: the chords run from the start of the arc, not from the
\* walk's current point.
arcChordLoop(W, centerX, centerY, radius, startAngle, endAngle, segments, ray) ==
  chordsOver(W,
             chordEnds(centerX, centerY, radius, startAngle,
                       fdiv(fsub(endAngle, startAngle), <<segments>>), segments),
             segments, ray)

\* edgeTo that does not advance the walk's current point.
edgeTo_stale(W, x2, y2, ray) ==
  [W EXCEPT !.intersectionCount =
              IF lineIntersectsRay(W.currentX, W.currentY, x2, y2, ray.x, ray.y)
              THEN @ + 1 ELSE @]

\* A straight edge from the walk's current point to (x2, y2).
edgeTo(W, x2, y2, ray) ==
  [W EXCEPT !.intersectionCount =
              IF lineIntersectsRay(W.currentX, W.currentY, x2, y2, ray.x, ray.y)
              THEN @ + 1 ELSE @,
            !.currentX = x2, !.currentY = y2]

\* The cases of contains that count one straight edge from the walk's
\* current point: the number of arguments each requires, and the end of the
\* edge (closePath: the start of the subpath; a curve: its end point).
edgeArguments ==
  [lineTo |-> 2, closePath |-> 0, quadraticCurveTo |-> 4, bezierCurveTo |-> 6]
edgeEnd(W, type, args) ==
  IF type = "closePath" THEN Offset(W.startX, W.startY)
  ELSE Offset(args[edgeArguments[type] - 1], args[edgeArguments[type]])

\* One iteration of the loop of contains: the switch on cmd.type.
containsStep(W, cmd, ray) ==
  LET args == cmd.args IN
  CASE cmd.type = "moveTo" ->
         IF Len(args) >= 2
         THEN [W EXCEPT !.currentX = args[1], !.currentY = args[2],
                        !.startX = args[1], !.startY = args[2]]
         ELSE W
    [] cmd.type = "arc" ->
         IF Len(args) >= 5
         THEN arcChordLoop(W, args[1], args[2], args[3], args[4], args[5],
                           arcSegments(args[4], args[5]), ray)
         ELSE W
    [] cmd.type \in DOMAIN edgeArguments ->
         IF Len(args) >= edgeArguments[cmd.type]
         THEN edgeTo(W, edgeEnd(W, cmd.type, args).dx, edgeEnd(W, cmd.type, args).dy, ray)
         ELSE W
    [] OTHER -> W

RECURSIVE containsLoop(_, _, _, _)
containsLoop(W, cmds, i, ray) ==
  IF i > Len(cmds) THEN W
  ELSE containsLoop(containsStep(W, cmds[i], ray), cmds, i + 1, ray)

\* The walk of contains over the commands, from its initial state.
containsWalk(P, point) ==
  containsLoop([intersectionCount |-> 0, currentX |-> <<0>>, currentY |-> <<0>>,
                startX |-> <<0>>, startY |-> <<0>>],
               P.commands, 1, [x |-> point.dx, y |-> point.dy])

\* The pre-check of contains against the bounds.
outside(point, bounds) ==
  \/ flt(point.dx, bounds.left)
  \/ fgt(point.dx, bounds.right)
  \/ flt(point.dy, bounds.top)
  \/ fgt(point.dy, bounds.bottom)

\* The answer of contains for a number of crossings.
fillRule(rule, intersectionCount) ==
  IF rule = evenOdd THEN intersectionCount % 2 = 1 ELSE intersectionCount > 0

contains(P, point) ==
  IF Len(P.commands) = 0 THEN FALSE
  ELSE IF outside(point, getBounds(P)) THEN FALSE
  ELSE fillRule(P.fillType, containsWalk(P, point).intersectionCount)

\* ---------------------------------------------------------- getPerimeter
\* The literal 1.2
OnePointTwo == <<1, -52, 819, 819, 819, 819, 19>>

\* Math.sqrt(dx * dx + dy * dy) of the differences
distance(x1, y1, x2, y2) == hypotenuse(fsub(x2, x1), fsub(y2, y1))

\* perimeterEdge that does not advance the walk's current point.
perimeterEdge_stale(W, x2, y2) ==
  [W EXCEPT !.perimeter = fadd(@, distance(W.currentX, W.currentY, x2, y2))]

\* A straight edge from the walk's current point to (x2, y2): its length is
\* added and the current point moves to its end.
perimeterEdge(W, x2, y2) ==
  [W EXCEPT !.perimeter = fadd(@, distance(W.currentX, W.currentY, x2, y2)),
            !.currentX = x2, !.currentY = y2]

\* A curve to (endX, endY): 1.2 times the chord.
perimeterCurve(W, endX, endY) ==
  [W EXCEPT !.perimeter =
              fadd(@, fmul(distance(W.currentX, W.currentY, endX, endY), OnePointTwo)),
            !.currentX = endX, !.currentY = endY]

\* The arc case: radius * Math.abs(endAngle - startAngle).
arcLength(W, radius, sweepAngle, end) ==
  [W EXCEPT !.perimeter = fadd(@, fmul(radius, sweepAngle)),
            !.currentX = end.dx, !.currentY = end.dy]
perimeterArc(W, centerX, centerY, radius, startAngle, endAngle) ==
  arcLength(W, radius, MathAbs(fsub(endAngle, startAngle)),
            pointAt(centerX, centerY, radius, endAngle))

\* One iteration of the loop of getPerimeter: the switch on cmd.type.
perimeterStep(W, cmd) ==
  LET args == cmd.args IN
  CASE cmd.type = "moveTo" ->
         IF Len(args) >= 2
         THEN [W EXCEPT !.currentX = args[1], !.currentY = args[2],
                        !.startX = args[1], !.startY = args[2]]
         ELSE W
    [] cmd.type = "lineTo" ->
         IF Len(args) >= 2 THEN perimeterEdge(W, args[1], args[2]) ELSE W
    [] cmd.type = "arc" ->
         IF Len(args) >= 5
         THEN perimeterArc(W, args[1], args[2], args[3], args[4], args[5])
         ELSE W
    [] cmd.type = "closePath" -> perimeterEdge(W, W.startX, W.startY)
    [] cmd.type \in {"quadraticCurveTo", "bezierCurveTo"} ->
         IF Len(args) >= 4
         THEN perimeterCurve(W, args[Len(args) - 1], args[Len(args)])
         ELSE W
    [] OTHER -> W

RECURSIVE perimeterLoop(_, _, _)
perimeterLoop(W, cmds, i) ==
  IF i > Len(cmds) THEN W
  ELSE perimeterLoop(perimeterStep(W, cmds[i]), cmds, i + 1)

getPerimeter(P) ==
  perimeterLoop([perimeter |-> <<0>>, currentX |-> <<0>>, currentY |-> <<0>>,
                 startX |-> <<0>>, startY |-> <<0>>], P.commands, 1).perimeter

\* ------------------------------------------------------------- transform
\* How a call ends: by a thrown Error carrying a message, or by returning.
Throw(message) == [threw |-> TRUE, value |-> message]
Return(value) == [threw |-> FALSE, value |-> value]

\* transformPoint with the roles of b and c exchanged.
transformPoint_swapped(matrix, x, y) ==
  <<fadd(fadd(fmul(matrix[1], x), fmul(matrix[2], y)), matrix[5]),
    fadd(fadd(fmul(matrix[3], x), fmul(matrix[4], y)), matrix[6])>>

\* The closure transformPoint of transform, matrix = [a, b, c, d, e, f]:
\* a * x + c * y + e and b * x + d * y + f.
transformPoint(matrix, x, y) ==
  <<fadd(fadd(fmul(matrix[1], x), fmul(matrix[3], y)), matrix[5]),
    fadd(fadd(fmul(matrix[2], x), fmul(matrix[4], y)), matrix[6])>>

\* Math.sqrt(a * a + b * b), Math.sqrt(c * c + d * d), (scaleX + scaleY) / 2
scaleX(matrix) == hypotenuse(matrix[1], matrix[2])
scaleY(matrix) == hypotenuse(matrix[3], matrix[4])
average(scale) == fdiv(fadd(scale[1], scale[2]), <<2>>)
avgScale(matrix) == average(<<scaleX(matrix), scaleY(matrix)>>)

\* The roundRect case: the corners p1, p2 after the transformation.
roundRectBetween(p1, p2, newRadius) ==
  <<MathMin(p1[1], p2[1]), MathMin(p1[2], p2[2]),
    MathAbs(fsub(p2[1], p1[1])), MathAbs(fsub(p2[2], p1[2])), newRadius>>

\* The points of cmd that transformPoint is applied to, in order.
transformedPoints(cmd, args) ==
  CASE cmd.type \in {"moveTo", "lineTo"} -> <<<<args[1], args[2]>>>>
    [] cmd.type = "quadraticCurveTo" -> <<<<args[1], args[2]>>, <<args[3], args[4]>>>>
    [] cmd.type = "bezierCurveTo" ->
         <<<<args[1], args[2]>>, <<args[3], args[4]>>, <<args[5], args[6]>>>>
    [] cmd.type \in {"arc", "ellipse"} -> <<<<args[1], args[2]>>>>
    [] cmd.type = "roundRect" ->
         <<<<args[1], args[2]>>, <<fadd(args[1], args[3]), fadd(args[2], args[4])>>>>
    [] OTHER -> <<>>

transformAll(matrix, points) ==
  [i \in 1..Len(points) |-> transformPoint(matrix, points[i][1], points[i][2])] \o <<>>

\* The number of arguments below which cmd is skipped.
transformArguments ==
  [moveTo |-> 2, lineTo |-> 2, quadraticCurveTo |-> 4, bezierCurveTo |-> 6, arc |-> 5,
   ellipse |-> 7, roundRect |-> 5]

\* The arguments of the command pushed for cmd: p holds its transformed
\* points, scale is <<scaleX, scaleY>>.
transformedArgs(cmd, args, p, scale) ==
  CASE cmd.type \in {"moveTo", "lineTo"} -> p[1]
    [] cmd.type = "quadraticCurveTo" -> p[1] \o p[2]
    [] cmd.type = "bezierCurveTo" -> p[1] \o p[2] \o p[3]
    [] cmd.type = "arc" -> p[1] \o <<fmul(args[3], average(scale)), args[4], args[5]>>
    [] cmd.type = "ellipse" ->
         p[1] \o <<fmul(args[3], scale[1]), fmul(args[4], scale[2]),
                    args[5], args[6], args[7]>>
    [] cmd.type = "roundRect" ->
         roundRectBetween(p[1], p[2], fmul(args[5], average(scale)))

\* One iteration of the loop of transform: the commands pushed onto the new
\* path for cmd (none when cmd has too few arguments).
transformStep(matrix, cmd) ==
  IF cmd.type = "closePath" THEN <<PathCommand(cmd.type, <<>>)>>
  ELSE IF cmd.type \notin DOMAIN transformArguments THEN <<cmd>>
  ELSE IF Len(cmd.args) < transformArguments[cmd.type] THEN <<>>
  ELSE <<PathCommand(cmd.type,
                     transformedArgs(cmd, cmd.args,
                                     transformAll(matrix, transformedPoints(cmd, cmd.args)),
                                     <<scaleX(matrix), scaleY(matrix)>>))>>

RECURSIVE transformLoop(_, _, _, _)
transformLoop(newCommands, matrix, cmds, i) ==
  IF i > Len(cmds) THEN newCommands
  ELSE transformLoop(newCommands \o transformStep(matrix, cmds[i]), matrix, cmds, i + 1)

\* A length test that lets an array of more than six numbers through.
matrixRejected_short(matrix) == Len(matrix) < 6

\* The length test at the head of transform.
matrixRejected(matrix) == Len(matrix) # 6

\* transform(matrix) on the path P: the way the call ends.  P is only read.
transform(P, matrix) ==
  IF matrixRejected(matrix)
  THEN Throw("Matrix must have 6 elements [a, b, c, d, e, f]")
  ELSE LET point == transformPoint(matrix, P.currentPoint.dx, P.currentPoint.dy)
       IN  Return([commands |-> transformLoop(<<>>, matrix, P.commands, 1),
                   fillType |-> P.fillType,
                   currentPoint |-> Offset(point[1], point[2])])

\* ------------------------------------------------------------------ heap
\* Several Paths and what they share.  heap.paths[p] holds the fields of the
\* p-th Path constructed; its commands field is a reference to an array.
\* heap.arrays maps every array that some Path references to its contents, a
\* sequence of command records.  A record is [id, type, args]: id is the
\* identity of the object, <<p, k>> for the k-th live record made by a
\* method working for path p; type and args are never written after the
\* record is made, so each reference carries them.  Arrays are named the
\* same way.  currentPoint objects are replaced, never written, and are kept
\* by value.
EmptyHeap == [paths |-> <<>>, arrays |-> <<>>]

arrayOf(h, p) == h.arrays[h.paths[p].commands]

\* The private fields of path p as values: what its methods compute from.
view(h, p) ==
  [commands |-> [i \in 1..Len(arrayOf(h, p)) |->
                   PathCommand(arrayOf(h, p)[i].type, arrayOf(h, p)[i].args)],
   fillType |-> h.paths[p].fillType,
   currentPoint |-> h.paths[p].currentPoint]

\* The identities of the command records path p references.
recordIds(h, p) == {arrayOf(h, p)[i].id : i \in 1..Len(arrayOf(h, p))}

liveRecordIds(h) ==
  UNION {{h.arrays[a][i].id : i \in 1..Len(h.arrays[a])} : a \in DOMAIN h.arrays}

\* The first serial number k from which <<p, k>> names no object in use.
RECURSIVE freshSerial(_, _, _)
freshSerial(used, p, k) ==
  IF <<p, k>> \in used THEN freshSerial(used, p, k + 1) ELSE k

\* Object literals { type, args } made for path p, one for each of cmds.
RECURSIVE newRecordsLoop(_, _, _, _, _)
newRecordsLoop(used, p, cmds, i, records) ==
  IF i > Len(cmds) THEN records
  ELSE LET id == <<p, freshSerial(used, p, 1)>>
       IN  newRecordsLoop(used \cup {id}, p, cmds, i + 1,
                          Append(records, [id |-> id, type |-> cmds[i].type,
                                           args |-> cmds[i].args]))

newRecords(h, p, cmds) == newRecordsLoop(liveRecordIds(h), p, cmds, 1, <<>>)

\* Arrays no Path references any more are dropped.
collect(h) ==
  [h EXCEPT !.arrays = [a \in {h.paths[p].commands : p \in 1..Len(h.paths)} |-> h.arrays[a]]]

\* new Path(): the field initialisers allocate an empty array.
construct(h) ==
  LET p == Len(h.paths) + 1
      a == <<p, freshSerial(DOMAIN h.arrays, p, 1)>>
  IN  [paths |-> Append(h.paths, [commands |-> a, fillType |-> nonZero,
                                  currentPoint |-> OffsetOf(0, 0)]),
       arrays |-> (a :> <<>>) @@ h.arrays]

\* path.commands = <a new array holding contents>.
assignCommands(h, p, contents) ==
  LET a == <<p, freshSerial(DOMAIN h.arrays, p, 1)>>
  IN  collect([paths |-> [h.paths EXCEPT ![p].commands = a],
               arrays |-> (a :> contents) @@ h.arrays])

\* A builder method on path p that took its fields from view(h, p) to P2:
\* the commands it appended are pushed, as new records, onto the array p
\* references, and the other fields are assigned.
applyPush(h, p, P2) ==
  LET a == h.paths[p].commands
      added == SubSeq(P2.commands, Len(h.arrays[a]) + 1, Len(P2.commands))
  IN  [paths |-> [h.paths EXCEPT ![p].fillType = P2.fillType,
                                 ![p].currentPoint = P2.currentPoint],
       arrays |-> [h.arrays EXCEPT ![a] = @ \o newRecords(h, p, added)]]

\* reset() on path p: this.commands = [] is a new array.
resetOn(h, p) ==
  [assignCommands(h, p, <<>>) EXCEPT !.paths[p].currentPoint = OffsetOf(0, 0)]

\* clone that hands its own array to the new path.
clone_aliased(h, p) ==
  LET h1 == construct(h)
      newPath == Len(h1.paths)
  IN  collect([h1 EXCEPT !.paths[newPath].commands = h.paths[p].commands,
                         !.paths[newPath].fillType = h.paths[p].fillType,
                         !.paths[newPath].currentPoint = h.paths[p].currentPoint])

\* clone() on path p; the new path is the last of the heap returned.  The
\* spread [...this.commands] is a new array of the same records.
clone(h, p) ==
  LET h1 == construct(h)
      newPath == Len(h1.paths)
  IN  [assignCommands(h1, newPath, arrayOf(h, p))
         EXCEPT !.paths[newPath].fillType = h.paths[p].fillType,
                !.paths[newPath].currentPoint = h.paths[p].currentPoint]

\* transform(matrix) on path p: each command is pushed as a new record onto
\* the array of the new path.  Nothing is allocated when the call throws.
transformOn(h, p, matrix) ==
  LET done == transform(view(h, p), matrix)
      h1 == construct(h)
  IN  IF done.threw THEN h ELSE applyPush(h1, Len(h1.paths), done.value)

\* A switch that has a case for a fifth tag, handled as intersect and xor are.
Operations_withReverse == {"union", "difference", "intersect", "xor", "reverseDifference"}

\* The operation tags the switch of combine has a case for.
Operations == {"union", "difference", "intersect", "xor"}

\* A fill type taken from path1 whatever the operation.
combinedFillType_ofPath1(operation, fillType1) == fillType1

\* The _fillType the cases of combine assign to the result.
combinedFillType(operation, fillType1) ==
  IF operation = "union" THEN fillType1 ELSE evenOdd

\* A result that takes the commands of path1 alone.
combinedCommands_onlyPath1(h, result, operation, path1, path2) ==
  assignCommands(h, result, arrayOf(h, path1))

\* The result.commands the cases of combine build: for difference a copy
\* of path1's array onto which a copy { ...cmd } of each record of path2 is
\* pushed, else a new array of the records of both.
combinedCommands(h, result, operation, path1, path2) ==
  IF operation = "difference"
  THEN LET h3 == assignCommands(h, result, arrayOf(h, path1))
       IN  [h3 EXCEPT !.arrays[h3.paths[result].commands] =
                         @ \o newRecords(h3, result, arrayOf(h, path2))]
  ELSE assignCommands(h, result, arrayOf(h, path1) \o arrayOf(h, path2))

\* Path.combine(operation, path1, path2): the heap after the call and the
\* way it ends; the result is the last path of the heap.
combine(h, operation, path1, path2) ==
  LET h1 == construct(h)
      result == Len(h1.paths)
      h2 == combinedCommands(h1, result, operation, path1, path2)
  IN  IF operation \notin Operations
      THEN [heap |-> h, ret |-> Throw(<<"Unsupported path operation: ", operation>>)]
      ELSE [heap |-> [h2 EXCEPT !.paths[result].fillType =
                                   combinedFillType(operation, h.paths[path1].fillType),
                                !.paths[result].currentPoint = h.paths[path2].currentPoint],
            ret |-> Return(result)]

\* -------------------------------------------------------- applyToContext
\* A call made on another object: the method and the arguments passed.
BackendCall(method, args) == [method |-> method, args |-> args]

\* A test that asks for more than n arguments.
contextCall_strict(cmd, n) ==
  IF Len(cmd.args) > n
  THEN <<BackendCall(cmd.type, SubSeq(cmd.args, 1, n))>>
  ELSE <<>>

\* ctx.<type>(args[0], ..., args[n-1]), made when the command holds at least
\* n arguments (the builder methods store numbers, none is undefined).
contextCall(cmd, n) ==
  IF Len(cmd.args) >= n
  THEN <<BackendCall(cmd.type, SubSeq(cmd.args, 1, n))>>
  ELSE <<>>

\* One iteration of the loop of applyToContext: the calls made on ctx.
applyStep(cmd) ==
  CASE cmd.type \in {"moveTo", "lineTo"} -> contextCall(cmd, 2)
    [] cmd.type = "quadraticCurveTo" -> contextCall(cmd, 4)
    [] cmd.type = "bezierCurveTo" -> contextCall(cmd, 6)
    [] cmd.type = "arc" -> contextCall(cmd, 5)
    [] cmd.type = "ellipse" -> contextCall(cmd, 7)
    [] cmd.type = "roundRect" -> contextCall(cmd, 5)
    [] cmd.type = "closePath" -> <<BackendCall("closePath", <<>>)>>
    [] OTHER -> <<>>

RECURSIVE applyLoop(_, _, _)
applyLoop(calls, cmds, i) ==
  IF i > Len(cmds) THEN calls
  ELSE applyLoop(calls \o applyStep(cmds[i]), cmds, i + 1)

\* applyToContext(ctx) on the path P: the calls ctx receives.  P is only read.
applyToContext(P) == applyLoop(<<BackendCall("beginPath", <<>>)>>, P.commands, 1)

\* ---------------------------------------------- CustomPainter, CustomPaint
Size(width, height) == [width |-> width, height |-> height]

\* A painter object: its identity, its class, and the fields its
\* shouldRepaint compares (color and radius of the TestCustomPainter of
\* tests/custom-painter.test.ts, _animationValue of AnimatedCustomPainter,
\* none for a subclass that overrides paint only).
Painter(id, class, fields) == [id |-> id, class |-> class, fields |-> fields]

\* The painters after their construction: _animationValue starts at 0.
NewPainters ==
  <<Painter(1, "TestCustomPainter", <<"blue", 60>>),
    Painter(2, "TestCustomPainter", <<"blue", 60>>),
    Painter(3, "TestCustomPainter", <<"yellow", 90>>),
    Painter(4, "CustomPainter", <<>>),
    Painter(5, "AnimatedCustomPainter", <<0>>),
    Painter(6, "AnimatedCustomPainter", <<0>>),
    Painter(7, "AnimatedCustomPainter", <<0>>)>>

\* set animationValue(value) on an AnimatedCustomPainter: limited to 0..1.
setAnimationValue(painter, value) ==
  [painter EXCEPT !.fields = <<Max2(0, Min2(1, value))>>]

\* painter.shouldRepaint(oldDelegate), by the class of painter.
shouldRepaint(painter, oldDelegate) ==
  CASE painter.class = "TestCustomPainter" ->
         IF oldDelegate.class # "TestCustomPainter" THEN TRUE
         ELSE painter.fields # oldDelegate.fields
    [] painter.class = "AnimatedCustomPainter" ->
         IF oldDelegate.class = "AnimatedCustomPainter"
         THEN painter.fields # oldDelegate.fields
         ELSE TRUE
    [] OTHER -> TRUE

getClipBounds(size) ==
  [left |-> 0, top |-> 0, right |-> size.width, bottom |-> size.height]

\* CustomPainter.hitTest, which none of the painter classes overrides.
hitTest(position, size) ==
  LET bounds == getClipBounds(size)
  IN /\ position.dx >= bounds.left
     /\ position.dx <= bounds.right
     /\ position.dy >= bounds.top
     /\ position.dy <= bounds.bottom

\* A call made on the canvas or on a painter.
Call(target, method, args) == [target |-> target, method |-> method, args |-> args]

\* new Canvas(context, size)
Canvas(size) == [size |-> size]

\* new CustomPaint(painter, context, size): the object, which refers to the
\* painter and owns a new Canvas, and the call made.
NewCustomPaint(painter, size) ==
  [customPaint |-> [painter |-> painter, size |-> size, canvas |-> Canvas(size)],
   calls |-> <<Call("Canvas", "new", <<"ctx", size>>)>>]

\* CustomPaint.paint(): the calls it makes.
paint(cp) == <<Call(cp.painter, "paint", <<"canvas", cp.size>>)>>

\* A repaint that clears after painting.
repaint_paintFirst(cp) == paint(cp) \o <<Call("canvas", "clear", <<>>)>>

\* CustomPaint.repaint(): the calls it makes.
repaint(cp) == <<Call("canvas", "clear", <<>>)>> \o paint(cp)

\* set customPainter(newPainter), ps being the painter objects: the
\* CustomPaint afterwards and the calls made.
setCustomPainter(ps, cp, newPainter) ==
  LET should == shouldRepaint(ps[newPainter], ps[cp.painter])
      asked == <<Call(newPainter, "shouldRepaint", <<cp.painter>>)>>
      after == [cp EXCEPT !.painter = newPainter]
  IN [customPaint |-> after,
      calls |-> IF should THEN asked \o repaint(after) ELSE asked]

\* set size(newSize): the context is taken from the old canvas and a new
\* Canvas of the new size replaces it.
setSize(cp, newSize) ==
  [customPaint |-> [cp EXCEPT !.size = newSize, !.canvas = Canvas(newSize)],
   calls |-> <<Call("canvas", "getContext", <<>>),
               Call("Canvas", "new", <<"ctx", newSize>>)>>]

\* CustomPaint.handleTap(position)
handleTap(cp, position) == hitTest(position, cp.size)

\* ------------------------------------------------------------------ Color
\* A JavaScript number with an integer value n, held as n = hi * 2^16 + lo
\* with 0 <= lo < 2^16, so that 0xFFFFFFFF and its neighbours are exact.
Num(hi, lo) == [hi |-> hi, lo |-> lo]

\* ToInt32, the conversion the operators |, << and >> apply: n modulo 2^32,
\* taken in -2^31 .. 2^31 - 1.
ToInt32(n) == Num(((n.hi + 32768) % 65536) - 32768, n.lo)

\* x & 0xff for an integer x: the low eight bits of its two's complement.
lowByte(x) == x % 256

\* new Color(value): the value is stored as given.
Color(value) == [value |-> value]

\* (this.value >> 24) & 0xff
alpha(color) == lowByte(ToInt32(color.value).hi \div 256)

\* (this.value >> 16) & 0xff
red(color) == lowByte(ToInt32(color.value).hi)

\* (this.value >> 8) & 0xff
green(color) == lowByte(color.value.lo \div 256)

\* this.value & 0xff
blue(color) == lowByte(color.value.lo)

\* Color.fromARGB(a, r, g, b): the four low bytes packed by << and |, whose
\* result is a signed 32-bit integer.
fromARGB(a, r, g, b) ==
  Color(ToInt32(Num(lowByte(a) * 256 + lowByte(r), lowByte(g) * 256 + lowByte(b))))

\* color.withAlpha(alpha)
withAlpha(color, a) == fromARGB(a, red(color), green(color), blue(color))

\* ======================================================== state machine
self == [commands |-> commands, fillType |-> fillType, currentPoint |-> currentPoint]

\* The fields after a method has run on the path.
Becomes(P) ==
  /\ commands' = P.commands
  /\ fillType' = P.fillType
  /\ currentPoint' = P.currentPoint

\* A call on the path under study; the objects on the heap are left alone.
\* It calls no method of another object.
Called(op, args, value) ==
  /\ lastCall' = [op |-> op, args |-> args, ret |-> value]
  /\ trace' = <<>>
  /\ UNCHANGED <<heap, customPaint, painters>>

Init ==
  /\ commands = NewPath.commands
  /\ fillType = NewPath.fillType
  /\ currentPoint = NewPath.currentPoint
  /\ lastCall = [op |-> "new", args |-> <<>>, ret |-> "void"]
  /\ heap = EmptyHeap
  /\ trace = <<>>
  /\ customPaint = <<>>
  /\ painters = NewPainters

\* ---------------------------------------------------------------- inputs
Coords == {<<0>>, <<MaxCoord>>}
\* The coordinate pairs the calls are made with: points, offsets, control
\* points and corner radii.
CtrlPts == {<<<<0>>, <<MaxCoord>>>>, <<<<MaxCoord>>, <<0>>>>}
\* Rectangles with a whole-number centre and whole-number half extents.
EvenRects == {RectOf(0, 0, 2 * MaxCoord, 2 * MaxCoord), RectOf(2, 0, 2 + 4 * MaxCoord, 2 * MaxCoord)}
\* Start and sweep angles of arcTo.
ArcTurns == {<<<<0>>, MathPI>>, <<MathPI, MathPI>>, <<<<0>>, TwoPi>>}
Radii == {<<-1>>, <<0>>, <<MaxCoord>>}
PointLists == {<<>>, <<OffsetOf(MaxCoord, 0)>>, <<OffsetOf(0, 0), OffsetOf(MaxCoord, MaxCoord)>>}

\* --------------------------------------------------------------- actions
MoveTo ==
  \E p \in CtrlPts :
    /\ Len(commands) < MaxCmds
    /\ Becomes(moveTo(self, p[1], p[2]))
    /\ Called("moveTo", <<p[1], p[2]>>, "void")

RelativeMoveTo ==
  \E p \in CtrlPts :
    /\ Len(commands) < MaxCmds
    /\ Becomes(relativeMoveTo(self, p[1], p[2]))
    /\ Called("relativeMoveTo", <<p[1], p[2]>>, "void")

LineTo ==
  \E p \in CtrlPts :
    /\ Len(commands) < MaxCmds
    /\ Becomes(lineTo(self, p[1], p[2]))
    /\ Called("lineTo", <<p[1], p[2]>>, "void")

RelativeLineTo ==
  \E p \in CtrlPts :
    /\ Len(commands) < MaxCmds
    /\ Becomes(relativeLineTo(self, p[1], p[2]))
    /\ Called("relativeLineTo", <<p[1], p[2]>>, "void")

QuadraticBezierTo ==
  \E c \in CtrlPts, end \in CtrlPts :
    /\ Len(commands) < MaxCmds
    /\ Becomes(quadraticBezierTo(self, c[1], c[2], end[1], end[2]))
    /\ Called("quadraticBezierTo", <<c[1], c[2], end[1], end[2]>>, "void")

RelativeQuadraticBezierTo ==
  \E c \in CtrlPts, end \in CtrlPts :
    /\ Len(commands) < MaxCmds
    /\ Becomes(relativeQuadraticBezierTo(self, c[1], c[2], end[1], end[2]))
    /\ Called("relativeQuadraticBezierTo", <<c[1], c[2], end[1], end[2]>>, "void")

CubicTo ==
  \E c \in CtrlPts, end \in CtrlPts :
    /\ Len(commands) < MaxCmds
    /\ Becomes(cubicTo(self, c[1], c[2], c[2], c[1], end[1], end[2]))
    /\ Called("cubicTo", <<c[1], c[2], c[2], c[1], end[1], end[2]>>, "void")

RelativeCubicTo ==
  \E c \in CtrlPts, end \in CtrlPts :
    /\ Len(commands) < MaxCmds
    /\ Becomes(relativeCubicTo(self, c[1], c[2], c[2], c[1], end[1], end[2]))
    /\ Called("relativeCubicTo", <<c[1], c[2], c[2], c[1], end[1], end[2]>>, "void")

ArcTo ==
  \E rect \in EvenRects, turn \in ArcTurns, forceMoveTo \in BOOLEAN :
    /\ Len(commands) < MaxCmds
    /\ Becomes(arcTo(self, rect, turn[1], turn[2], forceMoveTo))
    /\ Called("arcTo", <<rect, turn[1], turn[2], forceMoveTo>>, "void")

AddRect ==
  \E rect \in EvenRects :
    /\ Len(commands) < MaxCmds
    /\ Becomes(addRect(self, rect))
    /\ Called("addRect", <<rect>>, "void")

AddRRect ==
  \E rect \in EvenRects, r \in CtrlPts :
    LET rrect == [rect |-> rect, tlRadiusX |-> r[1], tlRadiusY |-> r[2],
                  trRadiusX |-> r[1], trRadiusY |-> r[2], brRadiusX |-> r[1],
                  brRadiusY |-> r[2], blRadiusX |-> r[1], blRadiusY |-> r[2]]
    IN  /\ Len(commands) < MaxCmds
        /\ Becomes(addRRect(self, rrect))
        /\ Called("addRRect", <<rrect>>, "void")

AddOval ==
  \E rect \in EvenRects :
    /\ Len(commands) < MaxCmds
    /\ Becomes(addOval(self, rect))
    /\ Called("addOval", <<rect>>, "void")

AddCircle ==
  \E cx \in Coords, radius \in Radii :
    /\ Len(commands) < MaxCmds
    /\ Becomes(addCircle(self, Offset(cx, <<MaxCoord>>), radius))
    /\ Called("addCircle", <<Offset(cx, <<MaxCoord>>), radius>>, "void")

AddPolygon ==
  \E points \in PointLists, closeIt \in BOOLEAN :
    /\ Len(commands) < MaxCmds
    /\ Becomes(addPolygon(self, points, closeIt))
    /\ Called("addPolygon", <<points, closeIt>>, "void")

Close ==
  /\ Len(commands) < MaxCmds
  /\ Becomes(close(self))
  /\ Called("close", <<>>, "void")

Reset ==
  /\ Becomes(reset(self))
  /\ Called("reset", <<>>, "void")

SetFillType ==
  \E value \in {nonZero, evenOdd} :
    /\ Becomes(setFillType(self, value))
    /\ Called("fillType=", <<value>>, "void")

Next ==
  \/ MoveTo
  \/ RelativeMoveTo
  \/ LineTo
  \/ RelativeLineTo
  \/ QuadraticBezierTo
  \/ RelativeQuadraticBezierTo
  \/ CubicTo
  \/ RelativeCubicTo
  \/ ArcTo
  \/ AddRect
  \/ AddRRect
  \/ AddOval
  \/ AddCircle
  \/ AddPolygon
  \/ Close
  \/ Reset
  \/ SetFillType

Spec == Init /\ [][Next]_vars

\* ================================================= properties of Spec
selfNext == [commands |-> commands', fillType |-> fillType', currentPoint |-> currentPoint']

\* The most recent moveTo command at or before position i, or <<>>.
RECURSIVE lastMoveTo(_, _)
lastMoveTo(cmds, i) ==
  IF i = 0 THEN <<>>
  ELSE IF cmds[i].type = "moveTo" THEN cmds[i].args
  ELSE lastMoveTo(cmds, i - 1)

\* The point of an arc or an ellipse at the angle of sine and cosine sinCos.
roundEnd(centerX, centerY, radiusX, radiusY, sinCos) ==
  Offset(fadd(centerX, fmul(radiusX, sinCos[2])), fadd(centerY, fmul(radiusY, sinCos[1])))

\* The end coordinate of the last command of a list, as a set of points:
\* one point where the command kind fixes it, every point otherwise.
endpointHolds(cmds, point) ==
  IF Len(cmds) = 0 THEN point = OffsetOf(0, 0)
  ELSE LET cmd == cmds[Len(cmds)]
           args == cmd.args
       IN  CASE cmd.type \in {"moveTo", "lineTo"} -> point = Offset(args[1], args[2])
             [] cmd.type = "quadraticCurveTo" -> point = Offset(args[3], args[4])
             [] cmd.type = "bezierCurveTo" -> point = Offset(args[5], args[6])
             [] cmd.type \in {"arc", "ellipse"} ->
                  point = roundEnd(args[1], args[2], args[3],
                                   IF cmd.type = "arc" THEN args[3] ELSE args[4],
                                   MathSinCos(IF cmd.type = "arc" THEN args[5] ELSE args[7]))
             [] cmd.type = "closePath" ->
                  LET m == lastMoveTo(cmds, Len(cmds))
                  IN  m # <<>> => point = Offset(m[1], m[2])
             [] OTHER -> TRUE

\* C1: after any sequence of mutator calls on a fresh Path, currentPoint is
\* the end coordinate of the last command (the most recent moveTo point after
\* a closePath), and the origin when the list is empty.
C1_CurrentPointIsEndpoint == endpointHolds(commands, currentPoint)

commandKind(op) ==
  CASE op = "moveTo" -> "moveTo"
    [] op = "lineTo" -> "lineTo"
    [] op = "quadraticBezierTo" -> "quadraticCurveTo"
    [] op = "cubicTo" -> "bezierCurveTo"

\* C8: a call of moveTo, lineTo, quadraticBezierTo or cubicTo appends exactly
\* one command of the matching kind with the given arguments, keeps the
\* earlier commands and fillType, and sets currentPoint to the last
\* coordinate pair of the arguments.
C8_AppendsOneCommand ==
  [][lastCall'.op \in {"moveTo", "lineTo", "quadraticBezierTo", "cubicTo"} =>
       LET a == lastCall'.args IN
       /\ Len(commands') = Len(commands) + 1
       /\ SubSeq(commands', 1, Len(commands)) = commands
       /\ commands'[Len(commands')] = PathCommand(commandKind(lastCall'.op), a)
       /\ fillType' = fillType
       /\ currentPoint' = Offset(a[Len(a) - 1], a[Len(a)])]_vars

\* A cubicTo has been appended behind an earlier command.
C8_Witness ==
  /\ lastCall.op = "cubicTo"
  /\ Len(commands) = 2
  /\ commands[2].type = "bezierCurveTo"

\* C9: a relative call leaves the path as the absolute call with
\* currentPoint + d for every coordinate pair leaves it, and appends one
\* command of an absolute kind.
C9_RelativeIsAbsoluteFromCurrentPoint ==
  [][LET a == lastCall'.args
         cx == currentPoint.dx
         cy == currentPoint.dy
     IN  /\ lastCall'.op = "relativeMoveTo" =>
              selfNext = moveTo(self, fadd(cx, a[1]), fadd(cy, a[2]))
         /\ lastCall'.op = "relativeLineTo" =>
              selfNext = lineTo(self, fadd(cx, a[1]), fadd(cy, a[2]))
         /\ lastCall'.op = "relativeQuadraticBezierTo" =>
              selfNext = quadraticBezierTo(self, fadd(cx, a[1]), fadd(cy, a[2]),
                                           fadd(cx, a[3]), fadd(cy, a[4]))
         /\ lastCall'.op = "relativeCubicTo" =>
              selfNext = cubicTo(self, fadd(cx, a[1]), fadd(cy, a[2]),
                                 fadd(cx, a[3]), fadd(cy, a[4]),
                                 fadd(cx, a[5]), fadd(cy, a[6]))
         /\ lastCall'.op \in {"relativeMoveTo", "relativeLineTo",
                              "relativeQuadraticBezierTo", "relativeCubicTo"} =>
              /\ Len(commands') = Len(commands) + 1
              /\ commands'[Len(commands')].type \in
                   {"moveTo", "lineTo", "quadraticCurveTo", "bezierCurveTo"}]_vars

\* A relativeCubicTo made right after an arc that left the current point
\* away from the origin: the command's end differs from the offsets given.
C9_Witness ==
  /\ lastCall.op = "relativeCubicTo"
  /\ Len(commands) = 2
  /\ commands[1].type = "arc"
  /\ commands[2].type = "bezierCurveTo"
  /\ commands[2].args # lastCall.args

\* ============================================ SpecRects: addRect paths
\* Paths built from addRect calls only, under either fill type, probed by
\* contains.  Rectangle edges lie on even coordinates, so that the odd
\* coordinates of GridPts lie on no edge line.
RectSpansX == {<<0, 6>>, <<2, 4>>, <<0, 2>>, <<4, 6>>, <<0, 4>>}
RectSpansY == {<<0, 6>>, <<2, 4>>}
GridRects == {RectOf(sx[1], sy[1], sx[2], sy[2]) : sx \in RectSpansX, sy \in RectSpansY}
GridPts == {OffsetOf(x, y) : x \in -1..7, y \in -1..7}
ProbePts == {OffsetOf(3, 3), OffsetOf(1, 3), OffsetOf(5, 1), OffsetOf(-1, 3), OffsetOf(2, 2)}

AddGridRect ==
  \E rect \in GridRects :
    /\ Len(commands) < 5 * MaxRects
    /\ Becomes(addRect(self, rect))
    /\ Called("addRect", <<rect>>, "void")

ContainsProbe ==
  \E point \in ProbePts :
    /\ Called("contains", <<point>>, contains(self, point))
    /\ UNCHANGED <<commands, fillType, currentPoint>>

NextRects ==
  \/ AddGridRect
  \/ SetFillType
  \/ ContainsProbe

SpecRects == Init /\ [][NextRects]_vars

\* The rectangles of a path built by addRect calls, read back from the
\* moveTo and the second lineTo of each group of five commands.
rectAt(cmds, k) ==
  Rect(cmds[5 * k - 4].args[1], cmds[5 * k - 4].args[2],
       cmds[5 * k - 2].args[1], cmds[5 * k - 2].args[2])
rectsOf(cmds) == {k \in 1..(Len(cmds) \div 5) : TRUE}

strictlyInside(p, r) ==
  flt(r.left, p.dx) /\ flt(p.dx, r.right) /\ flt(r.top, p.dy) /\ flt(p.dy, r.bottom)
strictlyOutside(p, r) ==
  flt(p.dx, r.left) \/ fgt(p.dx, r.right) \/ flt(p.dy, r.top) \/ fgt(p.dy, r.bottom)
onEdgeLine(p, r) ==
  p.dx = r.left \/ p.dx = r.right \/ p.dy = r.top \/ p.dy = r.bottom

\* C2: under nonZero, a point contained in a path of rectangles lies in (or
\* on the border of) at least one of the rectangles.
C2_ContainedOnlyInsideSomeRect ==
  fillType = nonZero =>
    \A p \in GridPts :
      contains(self, p) =>
        \E k \in rectsOf(commands) : ~strictlyOutside(p, rectAt(commands, k))

\* C5: for a single rectangle under nonZero, every point strictly inside is
\* contained and every point strictly outside is not.
C5_SingleRectInsideOutside ==
  (Len(commands) = 5 /\ fillType = nonZero) =>
    \A p \in GridPts :
      /\ strictlyInside(p, rectAt(commands, 1)) => contains(self, p)
      /\ strictlyOutside(p, rectAt(commands, 1)) => ~contains(self, p)

\* contains has answered TRUE for a point strictly inside the only rectangle.
C5_Witness ==
  /\ Len(commands) = 5
  /\ fillType = nonZero
  /\ lastCall.op = "contains"
  /\ strictlyInside(lastCall.args[1], rectAt(commands, 1))
  /\ lastCall.ret = TRUE

\* C6: under evenOdd, a point on no edge line is contained exactly when it
\* lies inside an odd number of the rectangles.
C6_EvenOddParity ==
  fillType = evenOdd =>
    \A p \in GridPts :
      (\A k \in rectsOf(commands) : ~onEdgeLine(p, rectAt(commands, k))) =>
        (contains(self, p) <=>
           Cardinality({k \in rectsOf(commands) :
                          strictlyInside(p, rectAt(commands, k))}) % 2 = 1)

\* Two nested rectangles under evenOdd; contains has answered FALSE for a
\* point of the inner one.
C6_Witness ==
  /\ fillType = evenOdd
  /\ Len(commands) = 10
  /\ rectAt(commands, 1) = RectOf(0, 0, 6, 6)
  /\ rectAt(commands, 2) = RectOf(2, 2, 4, 4)
  /\ lastCall.op = "contains"
  /\ lastCall.args[1] = OffsetOf(3, 3)
  /\ lastCall.ret = FALSE
  /\ contains(self, OffsetOf(1, 1))

\* ====================================== SpecShapes: one shape per path
\* A fresh path that receives a single addCircle, addOval or addRRect and
\* is then queried by getBounds and contains.
ShapeCenters == {OffsetOf(2, 2), OffsetOf(5, 0)}
ShapeRadii == {<<0>>, <<1>>, <<3>>}
ShapeRects == {RectOf(0, 0, 4, 2), RectOf(0, 0, 2, 2), RectOf(2, 2, 8, 6), RectOf(-2, 0, 2, 6)}
ShapePts == {OffsetOf(x, y) : x \in {0, 2, 5, 7}, y \in {0, 2}}

AddOneCircle ==
  \E center \in ShapeCenters, radius \in ShapeRadii :
    /\ Len(commands) = 0
    /\ Becomes(addCircle(self, center, radius))
    /\ Called("addCircle", <<center, radius>>, "void")

AddOneOval ==
  \E rect \in ShapeRects :
    /\ Len(commands) = 0
    /\ Becomes(addOval(self, rect))
    /\ Called("addOval", <<rect>>, "void")

AddOneRRect ==
  \E rect \in ShapeRects, r \in {<<0>>, <<1>>} :
    LET rrect == [rect |-> rect, tlRadiusX |-> r, tlRadiusY |-> r,
                  trRadiusX |-> r, trRadiusY |-> r, brRadiusX |-> r,
                  brRadiusY |-> r, blRadiusX |-> r, blRadiusY |-> r]
    IN  /\ Len(commands) = 0
        /\ Becomes(addRRect(self, rrect))
        /\ Called("addRRect", <<rrect>>, "void")

GetBoundsCall ==
  /\ Called("getBounds", <<>>, getBounds(self))
  /\ UNCHANGED <<commands, fillType, currentPoint>>

ContainsShapePt ==
  \E point \in ShapePts :
    /\ Called("contains", <<point>>, contains(self, point))
    /\ UNCHANGED <<commands, fillType, currentPoint>>

NextShapes ==
  \/ AddOneCircle
  \/ AddOneOval
  \/ AddOneRRect
  \/ GetBoundsCall
  \/ ContainsShapePt

SpecShapes == Init /\ [][NextShapes]_vars

\* The path holds one arc command: the circle of an addCircle call.
holdsCircle == Len(commands) = 1 /\ commands[1].type = "arc"

\* C3: the bounds of a circle of radius r >= 0 around c are c -/+ r on both
\* axes.
C3_CircleBounds ==
  (holdsCircle /\ fge(commands[1].args[3], <<0>>)) =>
    LET cx == commands[1].args[1]
        cy == commands[1].args[2]
        r == commands[1].args[3]
    IN  getBounds(self) = Rect(fsub(cx, r), fsub(cy, r), fadd(cx, r), fadd(cy, r))

\* C4: a circle of radius r > 0 contains its centre and the points of the
\* horizontal through the centre that are nearer than r, and no point
\* farther than r from the centre.
C4_CircleContains ==
  (holdsCircle /\ fgt(commands[1].args[3], <<0>>)) =>
    LET cx == commands[1].args[1]
        cy == commands[1].args[2]
        r == commands[1].args[3]
    IN  /\ contains(self, Offset(cx, cy))
        /\ \A p \in ShapePts :
             /\ (p.dy = cy /\ flt(MathAbs(fsub(p.dx, cx)), r)) => contains(self, p)
             /\ fgt(fadd(fmul(fsub(p.dx, cx), fsub(p.dx, cx)),
                         fmul(fsub(p.dy, cy), fsub(p.dy, cy))), fmul(r, r)) =>
                  ~contains(self, p)

\* C7: a path holding one oval or one rounded rectangle of positive width
\* and height contains the centre of its rectangle.
C7_OvalAndRRectContainCentre ==
  /\ (Len(commands) = 1 /\ commands[1].type = "ellipse"
        /\ fgt(commands[1].args[3], <<0>>) /\ fgt(commands[1].args[4], <<0>>)) =>
       contains(self, Offset(commands[1].args[1], commands[1].args[2]))
  /\ (Len(commands) = 1 /\ commands[1].type = "roundRect"
        /\ fgt(commands[1].args[3], <<0>>) /\ fgt(commands[1].args[4], <<0>>)) =>
       contains(self, Offset(fadd(commands[1].args[1], fdiv(commands[1].args[3], <<2>>)),
                             fadd(commands[1].args[2], fdiv(commands[1].args[4], <<2>>))))

\* ================================== SpecPoly: straight-line subpaths
\* Paths built from moveTo, lineTo, addRect, addPolygon and close only.
PolyXs == {<<-1>>, <<2>>}
PolyYs == {<<-2>>, <<0>>, <<1>>}
PolyRects == {RectOf(-1, -2, 2, 1), RectOf(0, 0, 3, 3)}
PolyLists == {<<>>, <<OffsetOf(4, 0)>>, <<OffsetOf(0, -3), OffsetOf(1, 1)>>}

PolyMoveTo ==
  \E x \in PolyXs, y \in PolyYs :
    /\ Len(commands) < MaxPolyCmds
    /\ Becomes(moveTo(self, x, y))
    /\ Called("moveTo", <<x, y>>, "void")

PolyLineTo ==
  \E x \in PolyXs, y \in PolyYs :
    /\ Len(commands) < MaxPolyCmds
    /\ Becomes(lineTo(self, x, y))
    /\ Called("lineTo", <<x, y>>, "void")

PolyAddRect ==
  \E rect \in PolyRects :
    /\ Len(commands) < MaxPolyCmds
    /\ Becomes(addRect(self, rect))
    /\ Called("addRect", <<rect>>, "void")

PolyAddPolygon ==
  \E points \in PolyLists, closeIt \in BOOLEAN :
    /\ Len(commands) < MaxPolyCmds
    /\ Becomes(addPolygon(self, points, closeIt))
    /\ Called("addPolygon", <<points, closeIt>>, "void")

PolyClose ==
  /\ Len(commands) < MaxPolyCmds
  /\ Becomes(close(self))
  /\ Called("close", <<>>, "void")

NextPoly ==
  \/ PolyMoveTo
  \/ PolyLineTo
  \/ PolyAddRect
  \/ PolyAddPolygon
  \/ PolyClose
  \/ GetBoundsCall

SpecPoly == Init /\ [][NextPoly]_vars

\* The points appended to a path of moveTo and lineTo commands.
appendedPoints(cmds) ==
  {<<cmds[i].args[1], cmds[i].args[2]>> :
     i \in {j \in 1..Len(cmds) : cmds[j].type \in {"moveTo", "lineTo"}}}
SetMin(S) == CHOOSE m \in S : \A n \in S : fle(m, n)
SetMax(S) == CHOOSE m \in S : \A n \in S : fge(m, n)

\* C10: the bounds of a path of straight-line commands are the minimum and
\* the maximum of the x and of the y coordinates of the appended points, and
\* all zero when no point was appended.
C10_BoundsAreMinMax ==
  LET pts == appendedPoints(commands)
      xs == {p[1] : p \in pts}
      ys == {p[2] : p \in pts}
  IN  getBounds(self) =
        IF pts = {} THEN RectOf(0, 0, 0, 0)
        ELSE Rect(SetMin(xs), SetMin(ys), SetMax(xs), SetMax(ys))

\* getBounds has answered for a path whose extremes come from different
\* commands, none of them at zero on the low side.
C10_Witness ==
  /\ lastCall.op = "getBounds"
  /\ Len(commands) >= 2
  /\ flt(lastCall.ret.left, <<0>>) /\ flt(lastCall.ret.top, <<0>>)
  /\ fgt(lastCall.ret.right, <<0>>) /\ fgt(lastCall.ret.bottom, <<0>>)
  /\ \A i \in 1..Len(commands) :
       commands[i].type \in {"moveTo", "lineTo"} =>
         <<commands[i].args[1], commands[i].args[2]>> #
           <<lastCall.ret.left, lastCall.ret.top>>

\* getBounds has answered all zero for a path that holds only a closePath.
C10_WitnessEmpty ==
  /\ lastCall.op = "getBounds"
  /\ Len(commands) = 1
  /\ commands[1].type = "closePath"
  /\ lastCall.ret = RectOf(0, 0, 0, 0)

\* ======================================= SpecPerim: one addRect, measured
\* A path that holds one addRect, with left <= right and top <= bottom
\* (zero widths and heights included), measured by getPerimeter.
PerimSpans == {<<a, b>> \in {0, 1, 3, 6} \X {0, 1, 3, 6} : a <= b}
PerimRects == {RectOf(sx[1], sy[1], sx[2], sy[2]) : sx \in PerimSpans, sy \in PerimSpans}

PerimAddRect ==
  \E rect \in PerimRects :
    /\ Len(commands) = 0
    /\ Becomes(addRect(self, rect))
    /\ Called("addRect", <<rect>>, "void")

GetPerimeterCall ==
  /\ Called("getPerimeter", <<>>, getPerimeter(self))
  /\ UNCHANGED <<commands, fillType, currentPoint>>

NextPerim ==
  \/ PerimAddRect
  \/ GetPerimeterCall

SpecPerim == Init /\ [][NextPerim]_vars

\* C11: for a path holding only addRect(r), getPerimeter returns
\* 2*((right-left)+(bottom-top)): the moveTo adds nothing, the three lineTo
\* edges and the closing edge add their lengths.
C11_RectPerimeter ==
  (lastCall.op = "getPerimeter" /\ Len(commands) = 5) =>
    LET r == rectAt(commands, 1)
    IN  lastCall.ret =
          fmul(<<2>>, fadd(fsub(r.right, r.left), fsub(r.bottom, r.top)))

\* getPerimeter has measured a rectangle of width 3 and height 5.
C11_Witness ==
  /\ lastCall.op = "getPerimeter"
  /\ Len(commands) = 5
  /\ rectAt(commands, 1) = RectOf(3, 1, 6, 6)
  /\ lastCall.ret = <<16>>

\* ============================== SpecTransform: paths and their transforms
\* Paths of every command kind, built by a few calls each, and transform
\* called on them with matrices of six numbers (identity, scaling by 2,
\* translation by (25,25), a quarter turn, a stretch of x by 3) and with
\* arrays of zero, five and seven numbers.
\* The array of the integers of m, as numbers.
Matrix(m) == [i \in 1..Len(m) |-> <<m[i]>>] \o <<>>
XfMatrices ==
  {Matrix(<<1, 0, 0, 1, 0, 0>>), Matrix(<<2, 0, 0, 2, 0, 0>>),
   Matrix(<<1, 0, 0, 1, 25, 25>>), Matrix(<<0, 1, -1, 0, 0, 0>>),
   Matrix(<<3, 0, 0, 1, 0, 0>>)}
XfBadMatrices == {<<>>, Matrix(<<1, 0, 0, 1, 0>>), Matrix(<<2, 0, 0, 2, 0, 0, 1>>)}
XfPts == {OffsetOf(1, 2), OffsetOf(3, -1)}

XfMoveTo ==
  \E p \in XfPts :
    /\ Len(commands) < MaxXfCmds
    /\ Becomes(moveTo(self, p.dx, p.dy))
    /\ Called("moveTo", <<p.dx, p.dy>>, "void")

XfLineTo ==
  \E p \in XfPts :
    /\ Len(commands) < MaxXfCmds
    /\ Becomes(lineTo(self, p.dx, p.dy))
    /\ Called("lineTo", <<p.dx, p.dy>>, "void")

XfQuadraticBezierTo ==
  \E p \in XfPts :
    /\ Len(commands) < MaxXfCmds
    /\ Becomes(quadraticBezierTo(self, <<4>>, <<5>>, p.dx, p.dy))
    /\ Called("quadraticBezierTo", <<<<4>>, <<5>>, p.dx, p.dy>>, "void")

XfCubicTo ==
  \E p \in XfPts :
    /\ Len(commands) < MaxXfCmds
    /\ Becomes(cubicTo(self, <<-2>>, <<0>>, p.dx, p.dy, <<2>>, <<6>>))
    /\ Called("cubicTo", <<<<-2>>, <<0>>, p.dx, p.dy, <<2>>, <<6>>>>, "void")

XfAddRect ==
  \E rect \in {RectOf(0, 0, 50, 50), RectOf(1, 2, 4, 8)} :
    /\ Len(commands) < MaxXfCmds
    /\ Becomes(addRect(self, rect))
    /\ Called("addRect", <<rect>>, "void")

XfAddCircle ==
  /\ Len(commands) < MaxXfCmds
  /\ Becomes(addCircle(self, OffsetOf(2, 3), <<2>>))
  /\ Called("addCircle", <<OffsetOf(2, 3), <<2>>>>, "void")

XfAddOval ==
  /\ Len(commands) < MaxXfCmds
  /\ Becomes(addOval(self, RectOf(0, 2, 4, 8)))
  /\ Called("addOval", <<RectOf(0, 2, 4, 8)>>, "void")

XfAddRRect ==
  LET rrect == [rect |-> RectOf(1, 2, 5, 8),
                tlRadiusX |-> <<2>>, tlRadiusY |-> <<2>>, trRadiusX |-> <<2>>,
                trRadiusY |-> <<2>>, brRadiusX |-> <<2>>, brRadiusY |-> <<2>>,
                blRadiusX |-> <<2>>, blRadiusY |-> <<2>>]
  IN  /\ Len(commands) < MaxXfCmds
      /\ Becomes(addRRect(self, rrect))
      /\ Called("addRRect", <<rrect>>, "void")

TransformCall ==
  \E matrix \in XfMatrices \cup XfBadMatrices :
    /\ Called("transform", <<matrix>>, transform(self, matrix))
    /\ UNCHANGED <<commands, fillType, currentPoint>>

NextTransform ==
  \/ XfMoveTo
  \/ XfLineTo
  \/ XfQuadraticBezierTo
  \/ XfCubicTo
  \/ XfAddRect
  \/ XfAddCircle
  \/ XfAddOval
  \/ XfAddRRect
  \/ SetFillType
  \/ TransformCall

SpecTransform == Init /\ [][NextTransform]_vars

PointKinds == {"moveTo", "lineTo", "quadraticCurveTo", "bezierCurveTo"}

\* The image of a point under the matrix [a, b, c, d, e, f].
image(matrix, x, y) ==
  <<fadd(fadd(fmul(matrix[1], x), fmul(matrix[3], y)), matrix[5]),
    fadd(fadd(fmul(matrix[2], x), fmul(matrix[4], y)), matrix[6])>>

\* The point-valued arguments of the commands of the point kinds.
pointArgs(cmds) ==
  UNION {{<<cmds[i].args[2 * k - 1], cmds[i].args[2 * k]>> :
            k \in 1..(Len(cmds[i].args) \div 2)} :
         i \in {j \in 1..Len(cmds) : cmds[j].type \in PointKinds}}

\* C12: transform with a matrix of six numbers returns a path with as many
\* commands as the source, of the same kinds in the same order, and the same
\* fillType; the point arguments of moveTo, lineTo, quadraticCurveTo and
\* bezierCurveTo commands are the images of the source's; and for a path of
\* such commands (and closePath) getBounds of the result spans the images of
\* the source's points: scaling by 2 doubles the bounds, translating by
\* (25,25) shifts them.
C12_TransformMapsPoints ==
  (lastCall.op = "transform" /\ Len(lastCall.args[1]) = 6) =>
    LET matrix == lastCall.args[1]
        result == lastCall.ret.value
        pts == {image(matrix, p[1], p[2]) : p \in pointArgs(commands)}
        bounds == getBounds(self)
    IN  /\ ~lastCall.ret.threw
        /\ Len(result.commands) = Len(commands)
        /\ \A i \in 1..Len(commands) : result.commands[i].type = commands[i].type
        /\ result.fillType = fillType
        /\ \A i \in 1..Len(commands) :
             commands[i].type \in PointKinds =>
               /\ Len(result.commands[i].args) = Len(commands[i].args)
               /\ \A k \in 1..(Len(commands[i].args) \div 2) :
                    <<result.commands[i].args[2 * k - 1], result.commands[i].args[2 * k]>> =
                      image(matrix, commands[i].args[2 * k - 1], commands[i].args[2 * k])
        /\ (/\ pts # {}
            /\ \A i \in 1..Len(commands) : commands[i].type \in PointKinds \cup {"closePath"}) =>
             /\ getBounds(result) =
                  Rect(SetMin({p[1] : p \in pts}), SetMin({p[2] : p \in pts}),
                       SetMax({p[1] : p \in pts}), SetMax({p[2] : p \in pts}))
             /\ matrix = Matrix(<<2, 0, 0, 2, 0, 0>>) =>
                  getBounds(result) =
                    Rect(fmul(<<2>>, bounds.left), fmul(<<2>>, bounds.top),
                         fmul(<<2>>, bounds.right), fmul(<<2>>, bounds.bottom))
             /\ matrix = Matrix(<<1, 0, 0, 1, 25, 25>>) =>
                  getBounds(result) =
                    Rect(fadd(bounds.left, <<25>>), fadd(bounds.top, <<25>>),
                         fadd(bounds.right, <<25>>), fadd(bounds.bottom, <<25>>))

\* transform has turned a path holding a cubic curve by a quarter turn: the
\* control point (-2, 0) went to (0, -2).
C12_Witness ==
  /\ lastCall.op = "transform"
  /\ lastCall.args[1] = Matrix(<<0, 1, -1, 0, 0, 0>>)
  /\ Len(commands) >= 1
  /\ commands[1].type = "bezierCurveTo"
  /\ lastCall.ret.value.commands[1].args[1] = <<0>>
  /\ lastCall.ret.value.commands[1].args[2] = <<-2>>

\* transform has scaled the path of addRect({0,0,50,50}) by 2 and the bounds
\* of the result are {0,0,100,100}.
C12_WitnessScaledRect ==
  /\ lastCall.op = "transform"
  /\ lastCall.args[1] = Matrix(<<2, 0, 0, 2, 0, 0>>)
  /\ Len(commands) = 5
  /\ rectAt(commands, 1) = RectOf(0, 0, 50, 50)
  /\ getBounds(lastCall.ret.value) = RectOf(0, 0, 100, 100)

\* C20: transform with an array whose length is not six throws at the call
\* (no path is returned) and leaves the receiver's commands, fillType and
\* currentPoint as they were.
C20_BadMatrixThrows ==
  [][(lastCall'.op = "transform" /\ Len(lastCall'.args[1]) # 6) =>
       /\ lastCall'.ret.threw
       /\ lastCall'.ret.value = "Matrix must have 6 elements [a, b, c, d, e, f]"
       /\ selfNext = self]_vars

\* transform has thrown for an array of seven numbers on a path with commands.
C20_Witness ==
  /\ lastCall.op = "transform"
  /\ Len(lastCall.args[1]) = 7
  /\ lastCall.ret.threw
  /\ Len(commands) > 0

\* ========================================================= reset (Spec)
\* C18: after reset() the path is as a newly constructed one: no commands,
\* currentPoint (0,0), fillType nonZero, bounds all zero.
C18_ResetIsNew ==
  lastCall.op = "reset" =>
    /\ commands = <<>>
    /\ currentPoint = OffsetOf(0, 0)
    /\ fillType = nonZero
    /\ getBounds(self) = RectOf(0, 0, 0, 0)

\* ================================ SpecRRect: corners of different radii
\* addRRect called with corner radii that differ between the corners and
\* between X and Y.
RRectRadii == {<<1>>, <<2>>, <<3>>}
RRects ==
  {[rect |-> RectOf(0, 0, 8, 6),
    tlRadiusX |-> tlx, tlRadiusY |-> tly, trRadiusX |-> trx, trRadiusY |-> <<3>>,
    brRadiusX |-> <<3>>, brRadiusY |-> bry, blRadiusX |-> blx, blRadiusY |-> <<3>>] :
     tlx \in RRectRadii, tly \in RRectRadii, trx \in RRectRadii,
     bry \in RRectRadii, blx \in RRectRadii}

AddAnyRRect ==
  \E rrect \in RRects :
    /\ Len(commands) = 0
    /\ Becomes(addRRect(self, rrect))
    /\ Called("addRRect", <<rrect>>, "void")

NextRRect ==
  \/ AddAnyRRect
  \/ Reset

SpecRRect == Init /\ [][NextRRect]_vars

\* The smallest of the eight corner radii of rrect.
minCornerRadius(rrect) ==
  SetMin({rrect.tlRadiusX, rrect.tlRadiusY, rrect.trRadiusX, rrect.trRadiusY,
          rrect.brRadiusX, rrect.brRadiusY, rrect.blRadiusX, rrect.blRadiusY})

\* C19: addRRect appends exactly one roundRect command
\* [left, top, right-left, bottom-top, radius] whose radius is the smallest
\* of all the corner radii of rrect.
C19_RRectMinOfAllRadii ==
  [][lastCall'.op = "addRRect" =>
       LET rrect == lastCall'.args[1]
           rect == rrect.rect
       IN  commands' = Append(commands, PathCommand("roundRect",
                         <<rect.left, rect.top, fsub(rect.right, rect.left),
                           fsub(rect.bottom, rect.top), minCornerRadius(rrect)>>))]_vars

\* ===================================== SpecHeap: several Paths on a heap
\* Paths are constructed, built up by lineTo, reset, given the evenOdd fill
\* type, cloned, transformed and combined.  lastCall.args[1] is the path a
\* method was called on (for combine: the operation, then the two paths);
\* lastCall.ret of new, clone, transform and combine is the path returned.
HeapPts == {OffsetOf(1, 2)}
HeapMatrices == {Matrix(<<1, 0, 0, 1, 25, 25>>), Matrix(<<1, 0, 0, 1, 0>>)}
Paths == 1..Len(heap.paths)

Invoked(op, args, value) ==
  /\ lastCall' = [op |-> op, args |-> args, ret |-> value]
  /\ trace' = <<>>
  /\ UNCHANGED <<commands, fillType, currentPoint, customPaint, painters>>

HNew ==
  /\ Len(heap.paths) < MaxPaths
  /\ heap' = construct(heap)
  /\ Invoked("new", <<>>, Len(heap.paths) + 1)

HLineTo ==
  \E p \in Paths, point \in HeapPts :
    /\ Cardinality(liveRecordIds(heap)) < MaxRecords
    /\ heap' = applyPush(heap, p, lineTo(view(heap, p), point.dx, point.dy))
    /\ Invoked("lineTo", <<p, point.dx, point.dy>>, "void")

HReset ==
  \E p \in Paths :
    /\ heap' = resetOn(heap, p)
    /\ Invoked("reset", <<p>>, "void")

HSetFillType ==
  \E p \in Paths, value \in {evenOdd} :
    /\ heap' = [heap EXCEPT !.paths[p].fillType = value]
    /\ Invoked("fillType=", <<p, value>>, "void")

HClone ==
  \E p \in Paths :
    /\ Len(heap.paths) < MaxPaths
    /\ heap' = clone(heap, p)
    /\ Invoked("clone", <<p>>, Len(heap.paths) + 1)

HTransform ==
  \E p \in Paths, matrix \in HeapMatrices :
    /\ Len(heap.paths) < MaxPaths
    /\ heap' = transformOn(heap, p, matrix)
    /\ Invoked("transform", <<p, matrix>>,
               IF transform(view(heap, p), matrix).threw
               THEN "Error" ELSE Len(heap.paths) + 1)

HCombine ==
  \E operation \in Operations, path1 \in Paths, path2 \in Paths :
    /\ Len(heap.paths) < MaxPaths
    /\ heap' = combine(heap, operation, path1, path2).heap
    /\ Invoked("combine", <<operation, path1, path2>>,
               combine(heap, operation, path1, path2).ret.value)

NextHeap ==
  \/ HNew
  \/ HLineTo
  \/ HReset
  \/ HSetFillType
  \/ HClone
  \/ HTransform
  \/ HCombine

SpecHeap == Init /\ [][NextHeap]_vars

\* The paths a call may change: the receiver of a mutator, none for the
\* calls that return a new path.
Makers == {"new", "clone", "transform", "combine"}
receivers(call) == IF call.op \in Makers THEN {} ELSE {call.args[1]}

\* C13: transform, combine and clone leave every existing path as it was
\* (commands, fillType, currentPoint, and with them the bounds), and a
\* mutator call changes what can be observed of the path it is called on
\* only, whatever was cloned, transformed or combined before.
C13_OnlyReceiverChanges ==
  [][\A q \in Paths :
       q \notin receivers(lastCall') =>
         /\ view(heap', q) = view(heap, q)
         /\ getBounds(view(heap', q)) = getBounds(view(heap, q))]_vars

\* A lineTo was made on a clone that holds one more command than its
\* source does.
C13_Witness ==
  /\ lastCall.op = "lineTo"
  /\ Len(heap.paths) >= 2
  /\ lastCall.args[1] = 2
  /\ Len(arrayOf(heap, 1)) = 1
  /\ Len(arrayOf(heap, 2)) = 2
  /\ arrayOf(heap, 2)[1].id = arrayOf(heap, 1)[1].id

\* C14: no command record is referenced by two Paths.
C14_NoSharedRecords ==
  \A p \in Paths, q \in Paths :
    p # q => recordIds(heap, p) \cap recordIds(heap, q) = {}

\* ================================ SpecCombine: two rectangles combined
\* Two Paths are constructed, each is given one rectangle by addRect and
\* possibly the evenOdd fill type, and Path.combine is called on them once,
\* with one of the four operations or with a tag the enum does not hold.
\* lastCall.ret of combine is the way the call ended.
Sources == {1, 2}
OtherTags == {"reverseDifference", "bogus"}
CombineRects ==
  {RectOf(0, 0, 4, 4), RectOf(2, 2, 6, 6), RectOf(0, 2, 4, 6), RectOf(2, 0, 6, 4),
   RectOf(0, 0, 6, 6), RectOf(2, 2, 4, 4)}

CNew ==
  /\ Len(heap.paths) < Cardinality(Sources)
  /\ heap' = construct(heap)
  /\ Invoked("new", <<>>, Len(heap.paths) + 1)

CAddRect ==
  \E p \in Paths \cap Sources, rect \in CombineRects :
    /\ Len(arrayOf(heap, p)) = 0
    /\ heap' = applyPush(heap, p, addRect(view(heap, p), rect))
    /\ Invoked("addRect", <<p, rect>>, "void")

CSetFillType ==
  \E p \in Paths \cap Sources, value \in {evenOdd} :
    /\ heap' = [heap EXCEPT !.paths[p].fillType = value]
    /\ Invoked("fillType=", <<p, value>>, "void")

CCombine ==
  \E operation \in Operations \cup OtherTags, path1 \in Paths, path2 \in Paths :
    /\ Len(heap.paths) = Cardinality(Sources)
    /\ heap' = combine(heap, operation, path1, path2).heap
    /\ Invoked("combine", <<operation, path1, path2>>,
               combine(heap, operation, path1, path2).ret)

NextCombine ==
  \/ CNew
  \/ CAddRect
  \/ CSetFillType
  \/ CCombine

SpecCombine == Init /\ [][NextCombine]_vars

\* The four operations the claims about combine name.
FourOperations == {"union", "intersect", "xor", "difference"}

\* C15: combine(op, A, B) returns a path whose commands are A's followed by
\* B's, whose fillType is A's for union and evenOdd for intersect, xor and
\* difference, and whose currentPoint is B's.
C15_CombineConcatenates ==
  [][(lastCall'.op = "combine" /\ lastCall'.args[1] \in FourOperations) =>
       LET operation == lastCall'.args[1]
           A == view(heap, lastCall'.args[2])
           B == view(heap, lastCall'.args[3])
       IN  view(heap', lastCall'.ret.value) =
             [commands |-> A.commands \o B.commands,
              fillType |-> IF operation = "union" THEN A.fillType ELSE evenOdd,
              currentPoint |-> B.currentPoint]]_vars

\* combine(intersect, A, B) was called with A under nonZero, both paths
\* holding commands and ending at different points.
C15_Witness ==
  /\ lastCall.op = "combine"
  /\ lastCall.args[1] = "intersect"
  /\ lastCall.args[2] # lastCall.args[3]
  /\ heap.paths[lastCall.args[2]].fillType = nonZero
  /\ Len(arrayOf(heap, lastCall.args[2])) > 0
  /\ Len(arrayOf(heap, lastCall.args[3])) > 0
  /\ heap.paths[lastCall.args[2]].currentPoint # heap.paths[lastCall.args[3]].currentPoint
  /\ Len(arrayOf(heap, lastCall.ret.value)) =
       Len(arrayOf(heap, lastCall.args[2])) + Len(arrayOf(heap, lastCall.args[3]))

\* The two sources and the result of the combine call just made.
combinedA == view(heap, lastCall.args[2])
combinedB == view(heap, lastCall.args[3])
combinedResult == view(heap, lastCall.ret.value)

\* combine(operation, A, B) was just called on two one-rectangle paths.
combinedRects(operation) ==
  /\ lastCall.op = "combine"
  /\ lastCall.args[1] = operation
  /\ Len(combinedA.commands) = 5
  /\ Len(combinedB.commands) = 5

overlapping(a, b) ==
  /\ flt(MathMax(a.left, b.left), MathMin(a.right, b.right))
  /\ flt(MathMax(a.top, b.top), MathMin(a.bottom, b.bottom))
within(a, b) ==
  /\ fle(b.left, a.left) /\ fle(a.right, b.right)
  /\ fle(b.top, a.top) /\ fle(a.bottom, b.bottom)
partlyOverlapping(a, b) == overlapping(a, b) /\ ~within(a, b) /\ ~within(b, a)

\* C16: for two overlapping rectangles A and B the bounds of
\* combine(intersect, A, B) are the overlap rectangle of A and B.
C16_IntersectBoundsAreOverlap ==
  LET a == rectAt(combinedA.commands, 1)
      b == rectAt(combinedB.commands, 1)
  IN  (combinedRects("intersect") /\ overlapping(a, b)) =>
        getBounds(combinedResult) =
          Rect(MathMax(a.left, b.left), MathMax(a.top, b.top),
               MathMin(a.right, b.right), MathMin(a.bottom, b.bottom))

\* C17 as stated: for partly overlapping A and B, combine(xor) contains
\* every point strictly inside exactly one rectangle and no point strictly
\* inside both; combine(difference) contains every point strictly inside A
\* and outside B and no point strictly inside both.
C17_XorAndDifference ==
  LET a == rectAt(combinedA.commands, 1)
      b == rectAt(combinedB.commands, 1)
  IN  /\ (combinedRects("xor") /\ partlyOverlapping(a, b)) =>
           \A p \in GridPts :
             /\ (strictlyInside(p, a) # strictlyInside(p, b)) => contains(combinedResult, p)
             /\ (strictlyInside(p, a) /\ strictlyInside(p, b)) => ~contains(combinedResult, p)
      /\ (combinedRects("difference") /\ partlyOverlapping(a, b)) =>
           \A p \in GridPts :
             /\ (strictlyInside(p, a) /\ strictlyOutside(p, b)) => contains(combinedResult, p)
             /\ (strictlyInside(p, a) /\ strictlyInside(p, b)) => ~contains(combinedResult, p)

\* C17 amended: for partly overlapping A and B, combine(xor) contains every
\* point strictly inside one rectangle and strictly outside the other (not
\* on its border) and no point strictly inside both; combine(difference)
\* contains every point strictly inside A and strictly outside B and no
\* point strictly inside both.
C17_XorAndDifferenceOffBorders ==
  LET a == rectAt(combinedA.commands, 1)
      b == rectAt(combinedB.commands, 1)
  IN  /\ (combinedRects("xor") /\ partlyOverlapping(a, b)) =>
           \A p \in GridPts :
             /\ (strictlyInside(p, a) /\ strictlyOutside(p, b)) => contains(combinedResult, p)
             /\ (strictlyInside(p, b) /\ strictlyOutside(p, a)) => contains(combinedResult, p)
             /\ (strictlyInside(p, a) /\ strictlyInside(p, b)) => ~contains(combinedResult, p)
      /\ (combinedRects("difference") /\ partlyOverlapping(a, b)) =>
           \A p \in GridPts :
             /\ (strictlyInside(p, a) /\ strictlyOutside(p, b)) => contains(combinedResult, p)
             /\ (strictlyInside(p, a) /\ strictlyInside(p, b)) => ~contains(combinedResult, p)

\* combine(xor) was called on {0,0,4,4} and {2,2,6,6}: the result contains
\* (1,1) and (5,5) and does not contain (3,3).
C17_Witness ==
  /\ combinedRects("xor")
  /\ rectAt(combinedA.commands, 1) = RectOf(0, 0, 4, 4)
  /\ rectAt(combinedB.commands, 1) = RectOf(2, 2, 6, 6)
  /\ contains(combinedResult, OffsetOf(1, 1))
  /\ contains(combinedResult, OffsetOf(5, 5))
  /\ ~contains(combinedResult, OffsetOf(3, 3))

\* combine(difference) was called on {0,0,4,4} and {2,2,6,6}: the result
\* contains (1,1) and does not contain (3,3).
C17_WitnessDifference ==
  /\ combinedRects("difference")
  /\ rectAt(combinedA.commands, 1) = RectOf(0, 0, 4, 4)
  /\ rectAt(combinedB.commands, 1) = RectOf(2, 2, 6, 6)
  /\ contains(combinedResult, OffsetOf(1, 1))
  /\ ~contains(combinedResult, OffsetOf(3, 3))

\* C21: combine with an operation tag other than union, intersect,
\* difference and xor throws and returns no path: no Path is added to the
\* heap and the two sources keep their commands, fillType and currentPoint.
C21_OtherTagThrows ==
  [][(lastCall'.op = "combine" /\ lastCall'.args[1] \notin FourOperations) =>
       /\ lastCall'.ret.threw
       /\ Len(heap'.paths) = Len(heap.paths)
       /\ \A p \in Paths : view(heap', p) = view(heap, p)]_vars

\* combine has thrown for the tag reverseDifference on two different
\* one-rectangle paths.
C21_Witness ==
  /\ lastCall.op = "combine"
  /\ lastCall.args[1] = "reverseDifference"
  /\ lastCall.ret.threw
  /\ lastCall.args[2] # lastCall.args[3]
  /\ Len(heap.paths) = 2
  /\ Len(arrayOf(heap, 1)) = 5
  /\ Len(arrayOf(heap, 2)) = 5

\* ===================================== SpecApply: paths replayed on ctx
\* The paths of SpecTransform, applied to a rendering context that records
\* the calls it receives.
ApplyToContextCall ==
  /\ lastCall' = [op |-> "applyToContext", args |-> <<"ctx">>, ret |-> "void"]
  /\ trace' = applyToContext(self)
  /\ UNCHANGED <<commands, fillType, currentPoint, heap, customPaint, painters>>

ApplyClose ==
  /\ Len(commands) < MaxXfCmds
  /\ Becomes(close(self))
  /\ Called("close", <<>>, "void")

NextApply ==
  \/ ApplyClose
  \/ XfMoveTo
  \/ XfLineTo
  \/ XfQuadraticBezierTo
  \/ XfCubicTo
  \/ XfAddRect
  \/ XfAddCircle
  \/ XfAddOval
  \/ XfAddRRect
  \/ ApplyToContextCall

SpecApply == Init /\ [][NextApply]_vars

\* C22: applyToContext calls ctx.beginPath() first and then, for each
\* command in insertion order, makes one call of the command's kind with
\* the command's arguments; the calls after beginPath are as many as the
\* commands, in their order, and the path is not altered.
C22_ReplaysCommands ==
  [][lastCall'.op = "applyToContext" =>
       /\ selfNext = self
       /\ Len(trace') = Len(commands) + 1
       /\ trace'[1] = BackendCall("beginPath", <<>>)
       /\ \A i \in 1..Len(commands) :
            /\ trace'[i + 1].method = commands[i].type
            /\ trace'[i + 1].args = commands[i].args]_vars

\* A path holding a roundRect and then an arc was applied: ctx received
\* beginPath, roundRect and arc.
C22_Witness ==
  /\ lastCall.op = "applyToContext"
  /\ Len(commands) = 2
  /\ commands[1].type = "roundRect"
  /\ commands[2].type = "arc"
  /\ Len(trace) = 3
  /\ trace[2].method = "roundRect"
  /\ trace[3].args = <<<<2>>, <<3>>, <<2>>, <<0>>, TwoPi>>

\* ============================== SpecCustomPaint: one CustomPaint object
Painters == DOMAIN painters
Animated == {id \in Painters : painters[id].class = "AnimatedCustomPainter"}

Sizes == {Size(200, 200), Size(300, 150)}

Positions ==
  {Offset(100, 100), Offset(0, 0), Offset(200, 200), Offset(-10, -10),
   Offset(250, 100)}

\* Values assigned to animationValue: inside 0..1 and outside on both sides.
AnimationValues == {-1, 0, 1, 2}

\* A call on the CustomPaint object or on a painter; the path is not
\* involved.
Asked(op, args, value, calls) ==
  /\ lastCall' = [op |-> op, args |-> args, ret |-> value]
  /\ trace' = calls
  /\ UNCHANGED <<commands, fillType, currentPoint, heap>>

CPNew ==
  \E painter \in Painters, size \in Sizes :
    /\ customPaint = <<>>
    /\ LET done == NewCustomPaint(painter, size)
       IN /\ customPaint' = <<done.customPaint>>
          /\ Asked("new CustomPaint", <<painter, size>>, "void", done.calls)
    /\ UNCHANGED painters

CPSetCustomPainter ==
  \E newPainter \in Painters :
    /\ customPaint # <<>>
    /\ LET done == setCustomPainter(painters, customPaint[1], newPainter)
       IN /\ customPaint' = <<done.customPaint>>
          /\ Asked("customPainter=", <<newPainter>>, "void", done.calls)
    /\ UNCHANGED painters

CPSetSize ==
  \E newSize \in Sizes :
    /\ customPaint # <<>>
    /\ LET done == setSize(customPaint[1], newSize)
       IN /\ customPaint' = <<done.customPaint>>
          /\ Asked("size=", <<newSize>>, "void", done.calls)
    /\ UNCHANGED painters

CPRepaint ==
  /\ customPaint # <<>>
  /\ UNCHANGED <<customPaint, painters>>
  /\ Asked("repaint", <<>>, "void", repaint(customPaint[1]))

CPHandleTap ==
  \E position \in Positions :
    /\ customPaint # <<>>
    /\ UNCHANGED <<customPaint, painters>>
    /\ Asked("handleTap", <<position>>, handleTap(customPaint[1], position),
             <<Call(customPaint[1].painter, "hitTest",
                    <<position, customPaint[1].size>>)>>)

\* painter.hitTest(position, size) called directly on a painter.
HitTestCall ==
  \E painter \in Painters, position \in Positions, size \in Sizes :
    /\ UNCHANGED <<customPaint, painters>>
    /\ Asked("hitTest", <<painter, position, size>>, hitTest(position, size), <<>>)

\* painter.animationValue = value on an AnimatedCustomPainter, whether or
\* not a CustomPaint refers to it.
SetAnimationValue ==
  \E painter \in Animated, value \in AnimationValues :
    /\ painters' = [painters EXCEPT ![painter] = setAnimationValue(@, value)]
    /\ UNCHANGED customPaint
    /\ Asked("animationValue=", <<painter, value>>, "void", <<>>)

NextCustomPaint ==
  \/ CPNew
  \/ CPSetCustomPainter
  \/ CPSetSize
  \/ CPRepaint
  \/ CPHandleTap
  \/ HitTestCall
  \/ SetAnimationValue

SpecCustomPaint == Init /\ [][NextCustomPaint]_vars

\* C23: assigning customPainter = p always makes p the current painter; it
\* repaints, canvas.clear() and then p.paint(canvas, size) on the new
\* painter, exactly when p.shouldRepaint(previous painter) is true, and
\* makes neither call when it is false.
C23_SetterRepaintsWhenAsked ==
  [][lastCall'.op = "customPainter=" =>
       LET p == lastCall'.args[1]
           previous == customPaint[1].painter
           made == SubSeq(trace', 2, Len(trace'))
       IN /\ customPaint'[1].painter = p
          /\ customPaint'[1].size = customPaint[1].size
          /\ trace'[1] = Call(p, "shouldRepaint", <<previous>>)
          /\ made = IF shouldRepaint(painters[p], painters[previous])
                    THEN <<Call("canvas", "clear", <<>>),
                           Call(p, "paint", <<"canvas", customPaint[1].size>>)>>
                    ELSE <<>>]_vars

\* Painter 3 (yellow, 90) replaced painter 1 (blue, 60): cleared, then
\* painter 3 painted.
C23_Witness ==
  /\ lastCall.op = "customPainter="
  /\ customPaint[1].painter = 3
  /\ Len(trace) = 3
  /\ trace[1].args = <<1>>
  /\ trace[2].method = "clear"
  /\ trace[3].target = 3

\* Painter 2 replaced painter 1, which has the same color and radius:
\* painter 2 is current and nothing was cleared or painted.
C23_WitnessNoRepaint ==
  /\ lastCall.op = "customPainter="
  /\ customPaint[1].painter = 2
  /\ trace = <<Call(2, "shouldRepaint", <<1>>)>>

\* Painter 6 replaced painter 5 after painter 5's animationValue was set
\* to 1: the two differ, and painter 6 painted.
C23_WitnessAnimated ==
  /\ lastCall.op = "customPainter="
  /\ customPaint[1].painter = 6
  /\ painters[5].fields = <<1>>
  /\ painters[6].fields = <<0>>
  /\ trace = <<Call(6, "shouldRepaint", <<5>>), Call("canvas", "clear", <<>>),
               Call(6, "paint", <<"canvas", customPaint[1].size>>)>>

\* C24: the hitTest a painter inherits from CustomPainter returns false for
\* every position, positions inside 0..width x 0..height included.
C24_DefaultHitTestFalse ==
  lastCall.op = "hitTest" => lastCall.ret = FALSE

\* ================================================ SpecColor: Color values
\* Channel arguments: inside 0..255, at its ends, and outside on both sides.
Channels == {-10, 0, 128, 255, 256, 300}

\* 0xFFFF0000, 0xFFFFFFFF, 0x00000000 and 0x80FF8000 as written in source.
Literals == {Num(65535, 0), Num(65535, 65535), Num(0, 0), Num(33023, 32768)}

ColorOps == {"new Color", "fromARGB", "withAlpha"}

NewColor ==
  \E value \in Literals :
    /\ Called("new Color", <<value>>, Color(value))
    /\ UNCHANGED <<commands, fillType, currentPoint>>

FromARGB ==
  \E a \in Channels, r \in Channels, g \in Channels, b \in Channels :
    /\ Called("fromARGB", <<a, r, g, b>>, fromARGB(a, r, g, b))
    /\ UNCHANGED <<commands, fillType, currentPoint>>

\* withAlpha on the colour the previous call returned.
WithAlpha ==
  \E a \in Channels :
    /\ lastCall.op \in ColorOps
    /\ Called("withAlpha", <<lastCall.ret, a>>, withAlpha(lastCall.ret, a))
    /\ UNCHANGED <<commands, fillType, currentPoint>>

NextColor ==
  \/ NewColor
  \/ FromARGB
  \/ WithAlpha

SpecColor == Init /\ [][NextColor]_vars

\* The nearest value in 0..255.
clamped(x) == Max2(0, Min2(255, x))

\* C25: fromARGB and withAlpha limit out-of-range integer inputs to 0..255:
\* a channel above 255 becomes 255 and a negative one becomes 0.
C25_ChannelsClamped ==
  /\ lastCall.op = "fromARGB" =>
       /\ alpha(lastCall.ret) = clamped(lastCall.args[1])
       /\ red(lastCall.ret) = clamped(lastCall.args[2])
       /\ green(lastCall.ret) = clamped(lastCall.args[3])
       /\ blue(lastCall.ret) = clamped(lastCall.args[4])
  /\ lastCall.op = "withAlpha" =>
       alpha(lastCall.ret) = clamped(lastCall.args[2])

\* The unsigned number a * 2^24 + r * 2^16 + g * 2^8 + b, which is what
\* new Color(0xAARRGGBB) stores.
unsignedARGB(a, r, g, b) == Num(a * 256 + r, g * 256 + b)

\* C26: for a, r, g, b in 0..255 the value of fromARGB(a, r, g, b) is the
\* unsigned number a * 2^24 + r * 2^16 + g * 2^8 + b.
C26_ValueUnsigned ==
  (/\ lastCall.op = "fromARGB"
   /\ \A i \in 1..4 : lastCall.args[i] \in 0..255) =>
    lastCall.ret.value =
      unsignedARGB(lastCall.args[1], lastCall.args[2], lastCall.args[3],
                   lastCall.args[4])

\* ================================== SpecRay: one edge against one ray
\* The calls are made with <<x1, y1, x2, y2, rayX, rayY>> from four families.
\* Near the origin: small whole coordinates and the doubles 0.1 and 0.2.
Tenth == <<1, -56, 2458, 2457, 2457, 2457, 25>>
Fifth == <<1, -55, 2458, 2457, 2457, 2457, 25>>
RayXs == {<<-1>>, <<2>>, Tenth, Fifth}
RayYs == {<<-1>>, <<0>>, <<1>>, Tenth, Fifth}
RayOriginXs == {<<0>>, <<1>>, Tenth}
RayOriginYs == {<<0>>, Tenth}
NearCalls == RayXs \X RayYs \X RayXs \X RayYs \X RayOriginXs \X RayOriginYs

\* Long flat edges: x up to MaxWhole, y within -1..2, so that the quotient
\* is a rounded third or half of a large number and the sum rounds again;
\* 349524 and 349525 lie on either side of the intercept 349524 + 2/3 of
\* the edge (-1,-1)-(1048576,2) at y = 0.
WideXs == {<<-MaxWhole>>, <<-1>>, <<MaxWhole - 1>>, <<MaxWhole>>}
NarrowYs == {<<-1>>, <<0>>, <<2>>}
WideOriginXs == {<<-MaxWhole>>, <<0>>, <<349524>>, <<349525>>, <<MaxWhole - 1>>}
NarrowOriginYs == {<<0>>, <<1>>}
FlatCalls == WideXs \X NarrowYs \X WideXs \X NarrowYs \X WideOriginXs \X NarrowOriginYs

\* Long steep edges: y up to MaxWhole, x within -1..2.
NarrowXs == {<<-1>>, <<0>>, <<2>>}
WideYs == {<<-MaxWhole>>, <<0>>, <<699051>>, <<MaxWhole>>}
NarrowOriginXs == {<<0>>, <<1>>}
WideOriginYs == {<<-1>>, <<0>>, <<699050>>, <<699051>>}
SteepCalls == NarrowXs \X WideYs \X NarrowXs \X WideYs \X NarrowOriginXs \X WideOriginYs

\* An edge beyond MaxWhole whose exact intercept, 536870913 + 2^-25, is not
\* a double: the sum rounds to rayX.
FarCalls == {<<<<536870912>>, <<0>>, <<548055723>>, <<33554432>>, <<536870913>>, <<3>>>>}

RayCalls == NearCalls \cup FlatCalls \cup SteepCalls \cup FarCalls

\* The edge and the ray the call is made with.
InitRay ==
  /\ commands = NewPath.commands
  /\ fillType = NewPath.fillType
  /\ currentPoint = NewPath.currentPoint
  /\ \E edge \in RayCalls :
       lastCall = [op |-> "edge", args |-> edge, ret |-> "void"]
  /\ heap = EmptyHeap
  /\ trace = <<>>
  /\ customPaint = <<>>
  /\ painters = NewPainters

LineIntersectsRayCall ==
  /\ lastCall.op = "edge"
  /\ Called("lineIntersectsRay", lastCall.args,
            lineIntersectsRay(lastCall.args[1], lastCall.args[2],
                              lastCall.args[3], lastCall.args[4],
                              lastCall.args[5], lastCall.args[6]))
  /\ UNCHANGED <<commands, fillType, currentPoint>>

NextRay == LineIntersectsRayCall

SpecRay == InitRay /\ [][NextRay]_vars

\* One endpoint has y <= rayY and the other y > rayY.
straddles(y1, y2, rayY) ==
  \/ fle(y1, rayY) /\ fgt(y2, rayY)
  \/ fle(y2, rayY) /\ fgt(y1, rayY)

\* The straddling, non-horizontal edge whose X-intercept as the code
\* computes it is strictly greater than rayX.
crossing(x1, y1, x2, y2, rayX, rayY) ==
  /\ straddles(y1, y2, rayY)
  /\ y1 # y2
  /\ fgt(intersectionX(x1, y1, x2, y2, rayY), rayX)

\* On integers, in exact arithmetic:
\* x1 + (rayY - y1) * (x2 - x1) / (y2 - y1) > rayX with y1 # y2, both sides
\* less x1 and multiplied by y2 - y1.
interceptBeyond(x1, y1, x2, y2, rayX, rayY) ==
  IF y2 > y1
  THEN (rayY - y1) * (x2 - x1) > (rayX - x1) * (y2 - y1)
  ELSE (rayY - y1) * (x2 - x1) < (rayX - x1) * (y2 - y1)

\* The straddling, non-horizontal edge of whole coordinates whose exact
\* X-intercept is strictly greater than rayX.
crossingExactly(x1, y1, x2, y2, rayX, rayY) ==
  /\ \/ y1 <= rayY /\ y2 > rayY
     \/ y2 <= rayY /\ y1 > rayY
  /\ y1 # y2
  /\ interceptBeyond(x1, y1, x2, y2, rayX, rayY)

\* The whole numbers among the six coordinates of a call.
allWhole(args) == \A i \in 1..6 : isWhole(args[i])
wholeWithin(args, limit) ==
  \A i \in 1..6 : isWhole(args[i]) /\ Abs(args[i][1]) <= limit
crossesExactly(args) ==
  crossingExactly(args[1][1], args[2][1], args[3][1], args[4][1], args[5][1], args[6][1])

\* C27 as stated: lineIntersectsRay returns true exactly when the endpoints
\* straddle rayY, the edge is not horizontal and the X-intercept
\* x1 + (rayY - y1)*(x2 - x1)/(y2 - y1) is strictly greater than rayX (the
\* exact intercept where the coordinates are whole numbers, the computed one
\* otherwise); an edge with max(x1, x2) <= rayX never meets these
\* conditions, so the early rejection changes no result; and the result is
\* the same with the endpoints swapped.
C27_RayCrossing ==
  lastCall.op = "lineIntersectsRay" =>
    LET x1 == lastCall.args[1]
        y1 == lastCall.args[2]
        x2 == lastCall.args[3]
        y2 == lastCall.args[4]
        rayX == lastCall.args[5]
        rayY == lastCall.args[6]
    IN /\ lastCall.ret = IF allWhole(lastCall.args) THEN crossesExactly(lastCall.args)
                         ELSE crossing(x1, y1, x2, y2, rayX, rayY)
       /\ fle(MathMax(x1, x2), rayX) => ~crossing(x1, y1, x2, y2, rayX, rayY)
       /\ lastCall.ret = lineIntersectsRay(x2, y2, x1, y1, rayX, rayY)

\* C27 amended: for whole coordinates of magnitude at most MaxWhole,
\* lineIntersectsRay returns true exactly when the endpoints straddle rayY,
\* the edge is not horizontal and the exact X-intercept
\* x1 + (rayY - y1)*(x2 - x1)/(y2 - y1) is strictly greater than rayX; for
\* them no edge with max(x1, x2) <= rayX meets these conditions, and the
\* result is the same with the endpoints swapped.  For any coordinates, a
\* true result is returned only for an edge whose endpoints straddle rayY,
\* that is not horizontal and has an endpoint right of rayX.
C27_RayCrossingWhole ==
  lastCall.op = "lineIntersectsRay" =>
    LET x1 == lastCall.args[1]
        y1 == lastCall.args[2]
        x2 == lastCall.args[3]
        y2 == lastCall.args[4]
        rayX == lastCall.args[5]
        rayY == lastCall.args[6]
    IN /\ wholeWithin(lastCall.args, MaxWhole) =>
            /\ lastCall.ret = crossesExactly(lastCall.args)
            /\ Max2(x1[1], x2[1]) <= rayX[1] => ~crossesExactly(lastCall.args)
            /\ lastCall.ret = lineIntersectsRay(x2, y2, x1, y1, rayX, rayY)
       /\ lastCall.ret =>
            /\ straddles(y1, y2, rayY)
            /\ y1 # y2
            /\ fgt(x1, rayX) \/ fgt(x2, rayX)

\* The edge (-1,-1)-(1048576,2) crosses y = 0 at x = 349524 + 2/3, right of
\* the ray origin (349524,0): the quotient 1048577/3 is rounded, and so is
\* the sum.
C27_Witness ==
  /\ lastCall.op = "lineIntersectsRay"
  /\ lastCall.args = <<<<-1>>, <<-1>>, <<1048576>>, <<2>>, <<349524>>, <<0>>>>
  /\ ~isWhole(intersectionX(<<-1>>, <<-1>>, <<1048576>>, <<2>>, <<0>>))
  /\ lastCall.ret = TRUE

\* The same edge is not counted from the ray origin (349525,0), which lies
\* a third to the right of the crossing.
C27_WitnessLeftOf ==
  /\ lastCall.op = "lineIntersectsRay"
  /\ lastCall.args = <<<<-1>>, <<-1>>, <<1048576>>, <<2>>, <<349525>>, <<0>>>>
  /\ lastCall.ret = FALSE

\* The steep edge (-1,0)-(2,1048576) crosses y = 699051 at x = 1 + 2^-20,
\* right of the ray origin (1,699051) by the least amount the coordinates
\* allow.
C27_WitnessSteep ==
  /\ lastCall.op = "lineIntersectsRay"
  /\ lastCall.args = <<<<-1>>, <<0>>, <<2>>, <<1048576>>, <<1>>, <<699051>>>>
  /\ lastCall.ret = TRUE

\* Beyond MaxWhole the exact intercept can exceed rayX by less than the
\* spacing of the doubles around it: the edge is not counted.
C27_WitnessFar ==
  /\ lastCall.op = "lineIntersectsRay"
  /\ lastCall.args \in FarCalls
  /\ crossesExactly(lastCall.args)
  /\ lastCall.ret = FALSE

\* The edge (-1,-1)-(0.2,0.2) passes through the ray origin (0.1,0.1): it is
\* counted in this order of the endpoints and not in the other.
C27_WitnessRounded ==
  /\ lastCall.op = "lineIntersectsRay"
  /\ lastCall.args = <<<<-1>>, <<-1>>, Fifth, Fifth, Tenth, Tenth>>
  /\ lastCall.ret = TRUE
  /\ ~lineIntersectsRay(Fifth, Fifth, <<-1>>, <<-1>>, Tenth, Tenth)

\* C28: every Path whose command sequence is empty has the current point
\* (0, 0), the paths returned by transform, combine and clone included.
C28_EmptyPathAtOrigin ==
  \A p \in Paths :
    Len(arrayOf(heap, p)) = 0 => heap.paths[p].currentPoint = OffsetOf(0, 0)

\* ================== SpecIdentity: transform of paths with reversed rects
\* The paths of SpecTransform, and rounded rectangles whose rect has
\* right < left or bottom < top, stored with a negative width or height.
ReversedRects == {RectOf(5, 2, 1, 8), RectOf(1, 8, 5, 2)}

XfAddReversedRRect ==
  \E rect \in ReversedRects :
    LET rrect == [rect |-> rect,
                  tlRadiusX |-> <<2>>, tlRadiusY |-> <<2>>, trRadiusX |-> <<2>>,
                  trRadiusY |-> <<2>>, brRadiusX |-> <<2>>, brRadiusY |-> <<2>>,
                  blRadiusX |-> <<2>>, blRadiusY |-> <<2>>]
    IN  /\ Len(commands) < MaxXfCmds
        /\ Becomes(addRRect(self, rrect))
        /\ Called("addRRect", <<rrect>>, "void")

NextIdentity ==
  \/ XfMoveTo
  \/ XfLineTo
  \/ XfQuadraticBezierTo
  \/ XfCubicTo
  \/ XfAddRect
  \/ XfAddCircle
  \/ XfAddOval
  \/ XfAddRRect
  \/ XfAddReversedRRect
  \/ SetFillType
  \/ TransformCall

SpecIdentity == Init /\ [][NextIdentity]_vars

\* C29: transform([1, 0, 0, 1, 0, 0]) returns a path equal to the source,
\* whatever the kinds of its commands, rounded rectangles of negative width
\* or height included.
C29_IdentityKeepsPath ==
  (lastCall.op = "transform" /\ lastCall.args[1] = Matrix(<<1, 0, 0, 1, 0, 0>>)) =>
    /\ ~lastCall.ret.threw
    /\ lastCall.ret.value = self

\* ===================== SpecArcPerim: perimeters of paths holding arcs
\* Radii of either sign; an arcTo rect with right < left has a negative
\* radius too.
ArcRadii == {<<-2>>, <<2>>}
ArcRects == {RectOf(0, 0, 4, 4), RectOf(4, 0, 0, 4)}

ArcAddCircle ==
  \E center \in XfPts, radius \in ArcRadii :
    /\ Len(commands) < MaxXfCmds
    /\ Becomes(addCircle(self, center, radius))
    /\ Called("addCircle", <<center, radius>>, "void")

ArcArcTo ==
  \E rect \in ArcRects, forceMoveTo \in BOOLEAN :
    /\ Len(commands) < MaxXfCmds
    /\ Becomes(arcTo(self, rect, <<0>>, MathPI, forceMoveTo))
    /\ Called("arcTo", <<rect, <<0>>, MathPI, forceMoveTo>>, "void")

NextArcPerim ==
  \/ XfMoveTo
  \/ XfLineTo
  \/ ApplyClose
  \/ ArcAddCircle
  \/ ArcArcTo
  \/ GetPerimeterCall

SpecArcPerim == Init /\ [][NextArcPerim]_vars

\* C30: getPerimeter never returns a negative number, paths holding arcs of
\* negative radius included.
C30_PerimeterNotNegative ==
  lastCall.op = "getPerimeter" => fge(lastCall.ret, <<0>>)

====
